---- MODULE Spec2Model ----
(***************************************************************************)
(* Hybrid retrieval and rank fusion of the memory backend                  *)
(* (src/backend/routes/memory_routes.py).                                  *)
(*                                                                         *)
(* Numbers.  The code computes with Python floats.                         *)
(*   - a keyword score is held as the binary64 value the code computes,    *)
(*     every operation of the scorer rounding as binary64 does;            *)
(*   - a hybrid_score h is held exactly, as h * RrfScale, RrfScale a       *)
(*     common multiple of every denominator 60 + rank that can occur;      *)
(*   - a similarity is held in hundredths (0.45 is 45).                    *)
(* Strings are tuples of one-character strings.                            *)
(***************************************************************************)
EXTENDS Integers, Sequences, FiniteSets, TLC

VARIABLES
    memories,          \* the memories table of the relational store
    request,           \* parameters of the call or HTTP request being served
    pc,                \* position of the handler
    keyword_results,   \* local list keyword_results
    semantic_results,  \* local list semantic_results
    image_results,     \* local list image_results
    source_calls,      \* candidate sources called so far by this request
    source_failed,     \* candidate sources whose call raised
    retrieved,         \* history: the three lists as retrieved, before the type filter
    response,          \* what the call or request returned
    hash_seed,         \* the hash seed of the interpreter process
    scorer_call,       \* a direct call of _calculate_keyword_score
    heap,              \* dict and list objects of a direct call of the fusion
    answer_call,       \* the call of groq_client.answer by ask_from_memories
    tasks,             \* the requests served concurrently, one coroutine each
    frames,            \* the local lists of the handler calls under way
    _initialized,      \* the module-level initialization flag
    init_runs,         \* how often each step of the initialization has run
    store_call         \* the last request to get_memory or delete_memory

vars == <<memories, request, pc, keyword_results, semantic_results,
          image_results, source_calls, source_failed, retrieved, response,
          hash_seed, scorer_call, heap, answer_call, tasks, frames,
          _initialized, init_runs, store_call>>

----------------------------------------------------------------------------
(* Bounds *)

NumIds == 3        \* memory ids are 1..NumIds
MaxCand == 3       \* candidates over the three lists of one direct call
MaxLimit == 3      \* limits are 0..MaxLimit
MaxMalformedCand == 2  \* candidates of a direct call with a malformed record
MaxMatches == 1    \* matches one vector collection returns to a request
MaxTextLen == 5    \* characters of a text handed to the scorer directly
MaxTerms == 2      \* terms of a term set handed to the scorer directly
MaxHeapRefs == 3   \* references over the three lists of a call followed
                   \* object by object

MemIds == 1..NumIds

\* no list handed to the fusion is longer than this
MaxRank == MaxCand + 1
SimVals == {60, 80}
ImgSimVals == {70}

\* dict.get(key, default) on a key that may be missing
Missing == -1

Get(v, default) == IF v = Missing THEN default ELSE v

\* the value None of a key that is present
NoneValue == 0

\* the later value replaces the earlier one
TakeLater(a, b) == b

Max2(a, b) == IF a >= b THEN a ELSE b

Min2(a, b) == IF a <= b THEN a ELSE b

----------------------------------------------------------------------------
(* Strings *)

LowerChar(c) == IF c = "X" THEN "x" ELSE IF c = "Y" THEN "y" ELSE c

Lower(s) == [i \in 1..Len(s) |-> LowerChar(s[i])]

RECURSIVE SplitFrom(_, _, _)
\* str.split(): the whitespace-delimited words of s from index i on, cur
\* being the word under construction
SplitFrom(s, i, cur) ==
    IF i > Len(s)
    THEN IF cur = <<>> THEN <<>> ELSE <<cur>>
    ELSE IF s[i] = " "
         THEN (IF cur = <<>> THEN <<>> ELSE <<cur>>) \o SplitFrom(s, i + 1, <<>>)
         ELSE SplitFrom(s, i + 1, Append(cur, s[i]))

Split(s) == SplitFrom(s, 1, <<>>)

MatchAt(s, t, i) == i + Len(t) - 1 <= Len(s) /\ SubSeq(s, i, i + Len(t) - 1) = t

RECURSIVE CountFrom(_, _, _)
\* str.count(t): non-overlapping occurrences of t in s from index i on
CountFrom(s, t, i) ==
    IF i + Len(t) - 1 > Len(s) THEN 0
    ELSE IF MatchAt(s, t, i) THEN 1 + CountFrom(s, t, i + Len(t))
         ELSE CountFrom(s, t, i + 1)

StrCount(s, t) == CountFrom(s, t, 1)

\* str.index(t): 0-based index of the first occurrence, Missing for ValueError
StrIndex(s, t) ==
    LET hits == {i \in 1..Len(s) : MatchAt(s, t, i)}
    IN  IF hits = {} THEN Missing
        ELSE (CHOOSE i \in hits : \A j \in hits : i <= j) - 1

StrIn(t, s) == StrIndex(s, t) # Missing

----------------------------------------------------------------------------
(* Python floats of the keyword scorer *)

\* A float v >= 0 (IEEE 754 binary64) is the pair <<hi, lo>> with
\* v = (hi * 2^30 + lo) * 2^-56 and 0 <= lo < 2^30.  Every float the scorer
\* meets on blobs of at most 16 characters is such a multiple of 2^-56 below 32,
\* so the pair holds it exactly, and each operation rounds as binary64 does.
FloatZero == <<0, 0>>
FloatOne == <<2^26, 0>>

\* the float n * 0.5, n a small natural number
FloatOfHalves(n) == <<n * 2^25, 0>>

FloatGt(a, b) == a[1] > b[1] \/ (a[1] = b[1] /\ a[2] > b[2])

FloatGeq(a, b) == a = b \/ FloatGt(a, b)

\* how many low bits of hi * 2^30 + lo lie beyond its 53 significant bits
DroppedBits(hi) ==
    IF hi < 2^23 THEN 0
    ELSE CHOOSE d \in 1..8 : hi >= 2^(22 + d) /\ (d = 8 \/ hi < 2^(23 + d))

\* hi and the low limb lo1, a carry out of the low limb taken over
CarryInto(hi, lo1) == IF lo1 = 2^30 THEN <<hi + 1, 0>> ELSE <<hi, lo1>>

\* the low limb rounded to a multiple of unit: rem (with num / den) is what
\* lies below the unit, odd tells whether the unit bit is set
RoundOff(rem, odd, unit, hi, lo, num, den) ==
    CarryInto(hi,
              IF \/ 2 * (rem * den + num) > unit * den
                 \/ 2 * (rem * den + num) = unit * den /\ odd
              THEN lo - rem + unit
              ELSE lo - rem)

\* rounding to the bit of weight unit in the low limb
RoundAt(unit, hi, lo, num, den) ==
    RoundOff(lo % unit, (lo \div unit) % 2 = 1, unit, hi, lo, num, den)

\* the binary64 nearest to (hi * 2^30 + lo + num / den) * 2^-56, ties to even;
\* 0 <= num < den
RoundNearestEven(hi, lo, num, den) ==
    RoundAt(2^DroppedBits(hi), hi, lo, num, den)

\* a + b
FloatAdd(a, b) ==
    RoundNearestEven(a[1] + b[1] + (a[2] + b[2]) \div 2^30,
                     (a[2] + b[2]) % 2^30, 0, 1)

\* a - b for a >= b
FloatSub(a, b) ==
    RoundNearestEven(IF a[2] < b[2] THEN a[1] - b[1] - 1 ELSE a[1] - b[1],
                     (a[2] - b[2] + 2^30) % 2^30, 0, 1)

\* n / m for integers 0 <= n < m <= 16: the quotient by long division, rounded
FloatDivInt(n, m) ==
    LET r1 == (n * 2^26) % m
        r2 == (r1 * 2^15) % m
    IN  RoundNearestEven((n * 2^26) \div m,
                         ((r1 * 2^15) \div m) * 2^15 + (r2 * 2^15) \div m,
                         (r2 * 2^15) % m, m)

\* an integer-valued quantity as a sort key comparable by FloatGt
KeyOf(x) == <<x, 0>>

\* a scorer without the cap at 10.0
Uncapped(a, b) == a

FloatMin(a, b) == IF FloatGeq(b, a) THEN a ELSE b

FloatMax(a, b) == IF FloatGeq(a, b) THEN a ELSE b

----------------------------------------------------------------------------
(* Keyword relevance scorer *)

RECURSIVE AddAll(_, _)
\* score += x for the floats x of a tuple, in order
AddAll(score, addends) ==
    IF addends = <<>> THEN score
    ELSE AddAll(FloatAdd(score, Head(addends)), Tail(addends))

\* position_bonus, or 0.0 when text_lower.index(term) raises ValueError and
\* nothing is added
PositionBonus(first_position, length) ==
    IF first_position = Missing THEN FloatZero
    ELSE FloatMax(FloatZero,
                  FloatSub(FloatOne, FloatDivInt(first_position, length)))

\* what one term adds to the score, in the order it is added
TermAddends(text_lower, words, term) ==
    <<FloatOfHalves(4 * StrCount(text_lower, term)),
      FloatOfHalves(Cardinality({i \in 1..Len(words) :
                                    StrIn(term, words[i]) /\ words[i] # term})),
      PositionBonus(StrIndex(text_lower, term), Len(text_lower))>>

RECURSIVE SumTerms(_, _, _, _)
\* the loop over query_terms, taken in their iteration order: the score after
\* the terms left, starting from score
SumTerms(score, text_lower, words, terms) ==
    IF terms = <<>> THEN score
    ELSE SumTerms(AddAll(score, TermAddends(text_lower, words, Head(terms))),
                  text_lower, words, Tail(terms))

\* query_terms is the term set as the sequence its iteration yields; blobs of
\* the model have fewer than 100 words, so max(total_words / 100, 1) is 1 and
\* the division leaves the score as it is
_calculate_keyword_score(text, query_terms) ==
    IF text = <<>> \/ query_terms = <<>> THEN FloatZero
    ELSE LET text_lower == Lower(text)
             words == Split(text_lower)
             score == SumTerms(FloatZero, text_lower, words, query_terms)
         IN  FloatMin(score, FloatOfHalves(20))

RECURSIVE Distinct(_)
\* the distinct elements of a sequence, in order of first occurrence
Distinct(seq) ==
    IF seq = <<>> THEN <<>>
    ELSE LET init == Distinct(SubSeq(seq, 1, Len(seq) - 1))
             last == seq[Len(seq)]
         IN  IF \E i \in 1..Len(init) : init[i] = last THEN init
             ELSE Append(init, last)

Reverse(seq) == [i \in 1..Len(seq) |-> seq[Len(seq) + 1 - i]]

\* the hash seeds told apart: they decide in which order a set of strings is
\* iterated
HashSeeds == {0, 1}

\* iteration of set(words) in a process of the given hash seed: the insertion
\* order or its reverse (every order there is for sets of up to two strings)
SetIteration(words, seed) ==
    IF seed = 0 THEN Distinct(words) ELSE Reverse(Distinct(words))

\* set(query.lower().split()) as the loop of the scorer iterates it
QueryTermsUnder(query, seed) == SetIteration(Split(Lower(query)), seed)

QueryTerms(query) == QueryTermsUnder(query, hash_seed)

----------------------------------------------------------------------------
(* Rank fusion *)

rrf_k == 60

RECURSIVE Product(_, _)
Product(a, b) == IF a > b THEN 1 ELSE a * Product(a + 1, b)

\* hybrid scores are held times RrfScale, which every rrf_k + rank divides
RrfScale == Product(rrf_k + 1, rrf_k + MaxRank)

\* the rank counted from 0, as enumerate() without start=1 would
RrfTermZeroBased(rank) == RrfScale \div (rrf_k + rank - 1)

\* no contribution at all
RrfTermNone(rank) == 0

\* a contribution that grows with the rank number: 1.0 / (rrf_k + n + 1 - rank)
RrfTermIncreasing(rank) == RrfScale \div (rrf_k + MaxRank + 1 - rank)

\* 1.0 / (rrf_k + rank), times RrfScale
RrfTerm(rank) == RrfScale \div (rrf_k + rank)

\* "=" in place of "+=": the last contribution replaces the earlier ones
AddScoreAssign(hybrid_score, rank) == RrfTerm(rank)

\* fused[memory_id]["hybrid_score"] += 1.0 / (rrf_k + rank)
AddScore(hybrid_score, rank) == hybrid_score + RrfTerm(rank)

\* an insertion that puts p before the entries of equal key: an unstable sort
InsertDescBeforeEqual(sorted, p) ==
    LET n == Cardinality({i \in 1..Len(sorted) : FloatGt(sorted[i][1], p[1])})
    IN  SubSeq(sorted, 1, n) \o <<p>> \o SubSeq(sorted, n + 1, Len(sorted))

\* list.sort(key=..., reverse=True) and sorted(..., reverse=True) on
\* <<key, item>> pairs: descending by key, equal keys keep their order; a key
\* is a float pair, KeyOf(x) for a number x held as an integer
InsertDesc(sorted, p) ==
    LET n == Cardinality({i \in 1..Len(sorted) : FloatGeq(sorted[i][1], p[1])})
    IN  SubSeq(sorted, 1, n) \o <<p>> \o SubSeq(sorted, n + 1, Len(sorted))

RECURSIVE SortDesc(_)
SortDesc(pairs) ==
    IF pairs = <<>> THEN <<>>
    ELSE InsertDesc(SortDesc(SubSeq(pairs, 1, Len(pairs) - 1)), pairs[Len(pairs)])

Items(pairs) == [i \in 1..Len(pairs) |-> pairs[i][2]]

\* the scored pairs left in the order the datastore returned the records
KeywordUnsorted(results, query_terms) ==
    [i \in 1..Len(results) |->
        <<_calculate_keyword_score(
              results[i].processed_text \o <<" ">> \o results[i].raw_text,
              query_terms),
          results[i]>>]

_keyword_sorted(results, query_terms) ==
    SortDesc([i \in 1..Len(results) |->
        <<_calculate_keyword_score(
              results[i].processed_text \o <<" ">> \o results[i].raw_text,
              query_terms),
          results[i]>>])

SimilaritySorted(results) ==
    Items(SortDesc([i \in 1..Len(results) |->
        <<KeyOf(Get(results[i].similarity_score, 0)), results[i]>>]))

\* a lookup that only sees the entry created last
FusedIndexLastOnly(fused, memory_id) ==
    IF fused # <<>> /\ fused[Len(fused)].id = memory_id THEN Len(fused) ELSE 0

\* position in the insertion-ordered dict fused of the entry for memory_id,
\* 0 when there is none
FusedIndex(fused, memory_id) ==
    IF \E i \in 1..Len(fused) : fused[i].id = memory_id
    THEN CHOOSE i \in 1..Len(fused) : fused[i].id = memory_id
    ELSE 0

\* a source is appended only when match_types does not hold it yet
AppendSourceOnce(match_types, source) ==
    IF \E i \in 1..Len(match_types) : match_types[i] = source
    THEN match_types
    ELSE Append(match_types, source)

\* fused[memory_id]["match_types"].append(source)
AppendSource(match_types, source) == Append(match_types, source)

\* the extra fields left as the accumulator has them
KeepFields(acc, memory) == acc

\* for k, v in extra_fields.items(): fused[memory_id][k] = v, with the
\* extra_fields of the image loop: memory.get("image_path") and
\* memory.get("filename")
SetExtraFields(acc, memory) ==
    [acc EXCEPT !.image_path = Get(memory.image_path, NoneValue),
                !.filename = Get(memory.filename, NoneValue)]

\* one call of _add_rrf on the accumulator st = [raised, fused]; memory carries
\* keyword_score when it comes from the keyword list
_add_rrf(st, memory, rank, source) ==
    IF st.raised THEN st
    ELSE IF memory.id = Missing THEN [st EXCEPT !.raised = TRUE]
    ELSE
      LET fresh == [id |-> memory.id,
                    user_id |-> memory.user_id,
                    type |-> memory.type,
                    processed_text |-> memory.processed_text,
                    raw_text |-> memory.raw_text,
                    similarity_score |-> memory.similarity_score,
                    image_path |-> memory.image_path,
                    filename |-> memory.filename,
                    match_types |-> <<>>,
                    keyword_score |-> FloatZero,
                    semantic_score |-> 0,
                    image_score |-> 0,
                    hybrid_score |-> 0]
          fused1 == IF FusedIndex(st.fused, memory.id) = 0
                    THEN Append(st.fused, fresh) ELSE st.fused
          k == FusedIndex(fused1, memory.id)
          acc == fused1[k]
          acc1 == [acc EXCEPT !.hybrid_score = AddScore(@, rank),
                              !.match_types = AppendSource(@, source)]
          acc2 == CASE source = "keyword" ->
                         [acc1 EXCEPT !.keyword_score =
                             FloatMax(@, memory.keyword_score)]
                    [] source = "semantic" ->
                         [acc1 EXCEPT !.semantic_score =
                             Max2(@, Get(memory.similarity_score, 0))]
                    [] source = "image" ->
                         SetExtraFields(
                             [acc1 EXCEPT !.image_score =
                                 Max2(@, Get(memory.similarity_score, 0))],
                             memory)
      IN  [st EXCEPT !.fused = [fused1 EXCEPT ![k] = acc2]]

WithKeywordScore(memory, kw_score) ==
    [id |-> memory.id, user_id |-> memory.user_id, type |-> memory.type,
     processed_text |-> memory.processed_text, raw_text |-> memory.raw_text,
     similarity_score |-> memory.similarity_score,
     image_path |-> memory.image_path, filename |-> memory.filename,
     keyword_score |-> kw_score]

WithoutKeywordScore(memory) == WithKeywordScore(memory, Missing)

RECURSIVE AddKeywordList(_, _, _)
\* for rank, (kw_score, memory) in enumerate(keyword_scored, start=1)
AddKeywordList(st, keyword_scored, n) ==
    IF n = 0 THEN st
    ELSE _add_rrf(AddKeywordList(st, keyword_scored, n - 1),
                  WithKeywordScore(keyword_scored[n][2], keyword_scored[n][1]),
                  n, "keyword")

RECURSIVE AddSimilarityList(_, _, _, _)
\* for rank, memory in enumerate(semantic_sorted / image_sorted, start=1)
AddSimilarityList(st, sorted, n, source) ==
    IF n = 0 THEN st
    ELSE _add_rrf(AddSimilarityList(st, sorted, n - 1, source),
                  WithoutKeywordScore(sorted[n]), n, source)

\* the slice forgotten
TakeAll(seq, limit) == seq

\* sorted_results[:limit] for limit >= 0
Take(seq, limit) == SubSeq(seq, 1, Min2(limit, Len(seq)))

\* the body of _hybrid_rank_results below its first statement: query_terms is
\* the term set as the sequence its iteration yields
RankWithTerms(kw_results, sem_results, img_results, query_terms, limit) ==
    LET keyword_scored == _keyword_sorted(kw_results, query_terms)
        semantic_sorted == SimilaritySorted(sem_results)
        image_sorted == SimilaritySorted(img_results)
        st0 == [raised |-> FALSE, fused |-> <<>>]
        st1 == AddKeywordList(st0, keyword_scored, Len(keyword_scored))
        st2 == AddSimilarityList(st1, semantic_sorted, Len(semantic_sorted),
                                 "semantic")
        st3 == AddSimilarityList(st2, image_sorted, Len(image_sorted), "image")
        sorted_results ==
            Items(SortDesc([i \in 1..Len(st3.fused) |->
                <<KeyOf(st3.fused[i].hybrid_score), st3.fused[i]>>]))
    IN  IF st3.raised THEN [raised |-> TRUE, results |-> <<>>]
        ELSE [raised |-> FALSE, results |-> Take(sorted_results, limit)]

_hybrid_rank_results(kw_results, sem_results, img_results, query, limit) ==
    RankWithTerms(kw_results, sem_results, img_results, QueryTerms(query), limit)

----------------------------------------------------------------------------
(* The rank fusion object by object.  objects is the tuple of the dict      *)
(* objects there are, a reference being an index in it; a list object is a  *)
(* tuple of references.                                                     *)

\* the dicts a list of references refers to
Deref(objects, list) == [i \in 1..Len(list) |-> objects[list[i]]]

\* fused[memory_id] = memory: the accumulator is the candidate itself
AliasAccumulatorRef(objects, memory_ref) == memory_ref

\* fused[memory_id] = {**memory, ...}: the accumulator is a new dict
NewAccumulatorRef(objects, memory_ref) == Len(objects) + 1

\* results.sort(...): the list handed over is itself reordered
SortedInPlace(list, in_order) == in_order

\* sorted(results, ...) builds a new list and leaves the one handed over
AfterSorted(list, in_order) == list

\* the accumulator content of entry k of fused written to the object ref,
\* a new object when ref is beyond the objects there are; created tells
\* whether the entry was added to fused by this call
WriteObject(hs, ref, content, created) ==
    [raised |-> FALSE,
     objects |-> IF ref > Len(hs.objects) THEN Append(hs.objects, content)
                 ELSE [hs.objects EXCEPT ![ref] = content],
     fused_refs |-> IF created THEN Append(hs.fused_refs, ref)
                    ELSE hs.fused_refs]

\* what a call of _add_rrf that left the accumulator st1 did to the objects:
\* every assignment to fused[memory_id][...] writes the object
\* fused[memory_id] refers to
HeapStore(hs, memory_ref, st1, k) ==
    IF st1.raised THEN [hs EXCEPT !.raised = TRUE]
    ELSE IF Len(st1.fused) > Len(hs.fused_refs)
         THEN WriteObject(hs, NewAccumulatorRef(hs.objects, memory_ref),
                          st1.fused[k], TRUE)
         ELSE WriteObject(hs, hs.fused_refs[k], st1.fused[k], FALSE)

\* the candidate as _add_rrf reads it: keyword_score is a key of the copies
\* the keyword loop makes only
Carried(memory, source) ==
    IF source = "keyword" THEN memory ELSE WithoutKeywordScore(memory)

\* one call of _add_rrf on hs = [raised, objects, fused_refs], fused_refs the
\* values of the dict fused in insertion order
HeapAddRrf(hs, memory_ref, rank, source) ==
    IF hs.raised THEN hs
    ELSE HeapStore(hs, memory_ref,
                   _add_rrf([raised |-> FALSE,
                             fused |-> Deref(hs.objects, hs.fused_refs)],
                            Carried(hs.objects[memory_ref], source),
                            rank, source),
                   IF hs.objects[memory_ref].id = Missing THEN 0
                   ELSE IF FusedIndex(Deref(hs.objects, hs.fused_refs),
                                      hs.objects[memory_ref].id) = 0
                        THEN Len(hs.fused_refs) + 1
                        ELSE FusedIndex(Deref(hs.objects, hs.fused_refs),
                                        hs.objects[memory_ref].id))

\* memory = {**memory, "keyword_score": kw_score} is a new dict, and it is
\* the one handed to _add_rrf
HeapAddCopy(hs, scored, rank) ==
    HeapAddRrf([hs EXCEPT !.objects =
                   Append(@, WithKeywordScore(hs.objects[scored[2]], scored[1]))],
               Len(hs.objects) + 1, rank, "keyword")

RECURSIVE HeapAddKeywordList(_, _, _)
\* the keyword loop
HeapAddKeywordList(hs, keyword_scored, n) ==
    IF n = 0 THEN hs
    ELSE HeapAddCopy(HeapAddKeywordList(hs, keyword_scored, n - 1),
                     keyword_scored[n], n)

RECURSIVE HeapAddSimilarityList(_, _, _, _)
\* the semantic and the image loop hand the candidates themselves to _add_rrf
HeapAddSimilarityList(hs, sorted, n, source) ==
    IF n = 0 THEN hs
    ELSE HeapAddRrf(HeapAddSimilarityList(hs, sorted, n - 1, source),
                    sorted[n], n, source)

\* _keyword_sorted over references: pairs of a score and a reference
KeywordScoredRefs(objects, list, query_terms) ==
    SortDesc([i \in 1..Len(list) |->
        <<_calculate_keyword_score(
              objects[list[i]].processed_text \o <<" ">>
                  \o objects[list[i]].raw_text,
              query_terms),
          list[i]>>])

\* sorted(..., key=similarity_score, reverse=True) over references
RefsBySimilarity(objects, list) ==
    Items(SortDesc([i \in 1..Len(list) |->
        <<KeyOf(Get(objects[list[i]].similarity_score, 0)), list[i]>>]))

\* sorted(fused.values(), key=hybrid_score, reverse=True) over references
RefsByHybridScore(objects, fused_refs) ==
    Items(SortDesc([i \in 1..Len(fused_refs) |->
        <<KeyOf(objects[fused_refs[i]].hybrid_score), fused_refs[i]>>]))

\* the three loops over the sorted lists
HeapLoops(hs, keyword_scored, semantic_sorted, image_sorted) ==
    HeapAddSimilarityList(
        HeapAddSimilarityList(
            HeapAddKeywordList(hs, keyword_scored, Len(keyword_scored)),
            semantic_sorted, Len(semantic_sorted), "semantic"),
        image_sorted, Len(image_sorted), "image")

\* the objects and the three lists as the call leaves them, and the list it
\* returns
HeapReturn(hp, semantic_sorted, image_sorted, hs, limit) ==
    [raised |-> hs.raised,
     objects |-> hs.objects,
     lists |-> [keyword |-> hp.lists.keyword,
                semantic |-> AfterSorted(hp.lists.semantic, semantic_sorted),
                image |-> AfterSorted(hp.lists.image, image_sorted)],
     returned |-> IF hs.raised THEN <<>>
                  ELSE Take(RefsByHybridScore(hs.objects, hs.fused_refs), limit)]

HeapFuse(hp, keyword_scored, semantic_sorted, image_sorted, limit) ==
    HeapReturn(hp, semantic_sorted, image_sorted,
               HeapLoops([raised |-> FALSE, objects |-> hp.objects,
                          fused_refs |-> <<>>],
                         keyword_scored, semantic_sorted, image_sorted),
               limit)

\* _hybrid_rank_results on the objects of hp = [objects, lists]
HeapRun(hp, query_terms, limit) ==
    HeapFuse(hp,
             KeywordScoredRefs(hp.objects, hp.lists.keyword, query_terms),
             RefsBySimilarity(hp.objects, hp.lists.semantic),
             RefsBySimilarity(hp.objects, hp.lists.image),
             limit)

----------------------------------------------------------------------------
(* Sample data *)

\* raw text of the sample memory with identifier id
SampleRaw(id) ==
    CASE id % 3 = 1 -> <<"x", " ", "x">>
      [] id % 3 = 2 -> <<"X", "y">>
      [] OTHER      -> <<"y", " ", "X">>

SampleType(id) ==
    CASE id % 3 = 1 -> "text"
      [] id % 3 = 2 -> "image"
      [] OTHER      -> "voice"

\* a memory row as the relational store returns it
Row(id, user_id, type) ==
    [id |-> id, user_id |-> user_id, type |-> type,
     processed_text |-> Lower(SampleRaw(id)), raw_text |-> SampleRaw(id),
     similarity_score |-> Missing, image_path |-> Missing,
     filename |-> Missing]

WithSimilarity(row, s) == [row EXCEPT !.similarity_score = s]

\* memory["image_path"] = ...; memory["filename"] = ...
WithImageFields(row, image_path, filename) ==
    [row EXCEPT !.image_path = image_path, !.filename = filename]

\* the stored_path and the filename the upload of the image memory_id wrote
\* to the metadata of its image embedding
StoredPath(memory_id) == 10 + memory_id

StoredName(memory_id) == 20 + memory_id

\* the row with another text, processed as the sample rows are
WithText(row, raw) ==
    [row EXCEPT !.raw_text = raw, !.processed_text = Lower(raw)]

\* a row whose "id" key is missing
Malformed(row) == [row EXCEPT !.id = Missing]

\* user_id of the owner of the sample memory id
SampleOwner(id) == IF id % 3 = 0 THEN 2 ELSE 1

\* the memories table: one row per id, none soft-deleted
SampleMemories ==
    [id \in MemIds |-> [user_id |-> SampleOwner(id), type |-> SampleType(id),
                        deleted |-> FALSE]]

Queries == {<<"X">>, <<"y", " ", "X">>}
Limits == 0..MaxLimit

\* an absent optional string parameter; an optional list parameter
NoneStr == "<None>"
NoneList == [given |-> FALSE, items |-> <<>>]
SomeList(items) == [given |-> TRUE, items |-> items]

NothingRetrieved == [keyword |-> <<>>, semantic |-> <<>>, image |-> <<>>]

NoResponse == [status |-> "none", memories |-> <<>>, breakdown |-> <<0, 0, 0>>]

\* arguments and result of a direct call of the scorer
ScorerCall(text, query_terms, returned) ==
    [text |-> text, query_terms |-> query_terms, returned |-> returned]

\* the objects of a call followed object by object, before the call, and
\* after it (after has no object while the call has not returned)
HeapOf(objects, lists) ==
    [before |-> [objects |-> objects, lists |-> lists],
     after |-> [objects |-> <<>>, lists |-> NothingRetrieved],
     raised |-> FALSE,
     returned |-> <<>>]

\* no call is followed object by object
NoHeap == HeapOf(<<>>, NothingRetrieved)

\* the answer call has not been issued
NoAnswerCall == [outcome |-> "none", sources_before |-> {}]

\* the steps of initialize_all_processors, in order
InitSteps ==
    <<"postgres_db.connect", "neo4j_db.connect", "nlp_processor.load_models",
      "bert_ner_processor.load_models", "clip_processor.load_models",
      "embedding_processor.initialize">>

\* the processors have been initialized, every step having run once
OneRunEach == [k \in 1..Len(InitSteps) |-> 1]

\* no request to get_memory or delete_memory has been served
NoStoreCall ==
    [op |-> "none", caller |-> 0, memory_id |-> 0, owner |-> 0,
     status |-> "none"]

\* no request is served concurrently with another
NoTasks == <<>>
NoFrames == <<>>

\* no direct call of the scorer is under way
NoScorerCall == ScorerCall(<<>>, <<>>, FloatZero)

----------------------------------------------------------------------------
(* Direct calls of _hybrid_rank_results *)

\* identifiers of the records the caller may hand over: M1, M2, M3
FuseIds == {1, 2, 3}

KwCands == {Row(i, 1, SampleType(i)) : i \in FuseIds}
SemCands == {WithSimilarity(Row(i, 1, SampleType(i)), s) : i \in FuseIds, s \in SimVals}
ImgCands == {WithSimilarity(Row(i, 1, SampleType(i)), s) : i \in FuseIds, s \in ImgSimVals}

DirectRequest(query, limit) ==
    [handler |-> "direct", user_id |-> 1, query |-> query, limit |-> limit,
     search_type |-> "hybrid", memory_type |-> NoneStr,
     memory_types |-> NoneList]

\* the caller holds three lists of well-formed records
InitFuseWellFormed ==
    \E a \in 0..MaxCand :
      \E b \in 0..(MaxCand - a) :
        \E c \in 0..(MaxCand - a - b) :
          /\ keyword_results \in [1..a -> KwCands]
          /\ semantic_results \in [1..b -> SemCands]
          /\ image_results \in [1..c -> ImgCands]

\* the caller holds lists in which some record has no identifier
InitFuseMalformed ==
    \E a \in 0..MaxMalformedCand :
      \E b \in 0..(MaxMalformedCand - a) :
        /\ keyword_results \in [1..a -> KwCands \cup {Malformed(r) : r \in KwCands}]
        /\ semantic_results \in [1..b -> SemCands \cup {Malformed(r) : r \in SemCands}]
        /\ image_results = <<>>
        /\ \/ \E i \in 1..a : keyword_results[i].id = Missing
           \/ \E i \in 1..b : semantic_results[i].id = Missing

\* image candidates whose similarity 1 - distance is negative (distance > 1)
NegImgCands == {WithSimilarity(Row(i, 1, SampleType(i)), -50) : i \in FuseIds}

\* the caller holds image candidates, one at least of negative similarity, and
\* at most one keyword candidate
InitFuseNegativeSimilarity ==
    /\ \E a \in 0..1 : keyword_results \in [1..a -> KwCands]
    /\ semantic_results = <<>>
    /\ \E c \in 1..2 :
         /\ image_results \in [1..c -> ImgCands \cup NegImgCands]
         /\ \E i \in 1..c : image_results[i].similarity_score < 0

\* the caller holds two keyword and two semantic candidates and no image
\* candidate
InitFuseTwoByTwo ==
    /\ keyword_results \in [1..2 -> KwCands]
    /\ semantic_results \in [1..2 -> SemCands]
    /\ image_results = <<>>

\* keyword candidates holding the same two words in either order: M3 "y X" and
\* M1 with the text "x y"
MirrorCands == {Row(3, 1, SampleType(3)),
                WithText(Row(1, 1, SampleType(1)), <<"x", " ", "y">>)}

\* the caller holds two keyword candidates whose texts mirror each other and
\* at most one semantic candidate
InitFuseMirrorTexts ==
    /\ keyword_results \in [1..2 -> MirrorCands]
    /\ \E b \in 0..1 : semantic_results \in [1..b -> SemCands]
    /\ image_results = <<>>

\* the process has either hash seed where the caller holds the mirror texts,
\* whose keyword order depends on it
InitFuse ==
    /\ \/ /\ \/ InitFuseWellFormed
             \/ InitFuseTwoByTwo
             \/ InitFuseMalformed
             \/ InitFuseNegativeSimilarity
          /\ hash_seed = 0
       \/ /\ InitFuseMirrorTexts
          /\ hash_seed \in HashSeeds
    /\ \E q \in Queries : \E l \in Limits : request = DirectRequest(q, l)
    /\ memories = SampleMemories
    /\ scorer_call = NoScorerCall
    /\ heap = NoHeap
    /\ answer_call = NoAnswerCall
    /\ tasks = NoTasks
    /\ frames = NoFrames
    /\ _initialized = TRUE
    /\ init_runs = OneRunEach
    /\ store_call = NoStoreCall
    /\ pc = "call"
    /\ source_calls = {}
    /\ source_failed = {}
    /\ retrieved = NothingRetrieved
    /\ response = NoResponse

CallHybridRank ==
    /\ pc = "call"
    /\ LET r == _hybrid_rank_results(keyword_results, semantic_results,
                                     image_results, request.query, request.limit)
       IN  response' = [status |-> IF r.raised THEN "raised" ELSE "returned",
                        memories |-> r.results,
                        breakdown |-> <<0, 0, 0>>]
    /\ pc' = "returned"
    /\ UNCHANGED <<_initialized, init_runs, store_call, tasks, frames, answer_call, heap, scorer_call, hash_seed, memories,
                   request, keyword_results, semantic_results,
                   image_results, source_calls, source_failed, retrieved>>

NextFuse == CallHybridRank

SpecFuse == InitFuse /\ [][NextFuse]_vars

----------------------------------------------------------------------------
(* Candidate sources *)

Users == {1, 2}
FlowQueries == {<<"X">>, <<" ">>, <<"x", "y">>}
FlowLimits == {1, 2}
FlowSims == {48, 80}
FlowDistances == {30, 70}
Handlers == {"search_memories", "ask_from_memories"}
SearchTypes == {"hybrid", "keyword", "semantic", "image", "fuzzy"}

\* (memory_type, memory_types) as a client may send them; memory_types is held
\* as its items (for search_memories the pieces of the comma-separated string)
FilterParams ==
    {[memory_type |-> NoneStr,   memory_types |-> NoneList],
     [memory_type |-> "text",    memory_types |-> NoneList],
     [memory_type |-> " Voice",  memory_types |-> NoneList],
     [memory_type |-> "audio",   memory_types |-> NoneList],
     [memory_type |-> NoneStr,   memory_types |-> SomeList(<<"text", "image">>)],
     [memory_type |-> NoneStr,   memory_types |-> SomeList(<<"image", "audio">>)],
     [memory_type |-> NoneStr,   memory_types |-> SomeList(<<" ">>)],
     [memory_type |-> "image",   memory_types |-> SomeList(<<"audio">>)]}

RowOf(mem, id) == Row(id, mem[id].user_id, mem[id].type)

\* get_memory_by_id returns a row: the id exists and is not soft-deleted
HasMemory(mem, id) == id \in DOMAIN mem /\ ~mem[id].deleted

RECURSIVE IdsDesc(_)
\* ORDER BY m.timestamp DESC: timestamps grow with the serial id
IdsDesc(n) == IF n = 0 THEN <<>> ELSE <<n>> \o IdsDesc(n - 1)

advanced_search_memories(mem, query, limit, user_id) ==
    LET query_terms == Split(Lower(query))
        Matches(id) ==
            /\ id \in DOMAIN mem
            /\ mem[id].user_id = user_id
            /\ \/ query_terms = <<>>
               \/ \E k \in 1..Len(query_terms) :
                    \/ StrIn(query_terms[k], Lower(RowOf(mem, id).processed_text))
                    \/ StrIn(query_terms[k], Lower(RowOf(mem, id).raw_text))
        ids == SelectSeq(IdsDesc(NumIds), Matches)
    IN  [i \in 1..Min2(limit, Len(ids)) |-> RowOf(mem, ids[i])]

\* what search_similar_memories(query, limit, threshold) can return: at most
\* limit matches, each at or above the threshold, best first
SemanticAnswers(limit, threshold) ==
    UNION {{m \in [1..k -> [memory_id : MemIds,
                            similarity : {s \in FlowSims : s >= threshold}]] :
              \A i \in 1..(k - 1) : m[i].similarity >= m[i + 1].similarity} :
           k \in 0..Min2(limit, MaxMatches)}

\* what image_collection.query(n_results=n) can return: at most n entries,
\* nearest first
ImageAnswers(n) ==
    UNION {{m \in [1..k -> [memory_id : MemIds, distance : FlowDistances]] :
              \A i \in 1..(k - 1) : m[i].distance <= m[i + 1].distance} :
           k \in 0..Min2(n, MaxMatches)}

\* the image memory a match of the image collection stands for: the row with
\* similarity = 1 - distance, and image_path and filename from the metadata
ImageRow(mem, match) ==
    WithImageFields(WithSimilarity(RowOf(mem, match.memory_id),
                                   100 - match.distance),
                    StoredPath(match.memory_id), StoredName(match.memory_id))

\* the loop of search_memories over semantic_matches; the lookups at the
\* positions in bad raise and are skipped
SearchSemanticRows(mem, matches, bad, user_id) ==
    LET Kept(i) == /\ i \notin bad
                   /\ HasMemory(mem, matches[i].memory_id)
                   /\ mem[matches[i].memory_id].user_id = user_id
                   /\ matches[i].similarity >= 50
        idx == SelectSeq([i \in 1..Len(matches) |-> i], Kept)
    IN  [j \in 1..Len(idx) |->
            WithSimilarity(RowOf(mem, matches[idx[j]].memory_id),
                           matches[idx[j]].similarity)]

\* the loop of search_memories over image_matches
SearchImageRows(mem, matches, bad, user_id) ==
    LET Kept(i) == /\ 100 - matches[i].distance >= 35
                   /\ i \notin bad
                   /\ HasMemory(mem, matches[i].memory_id)
                   /\ mem[matches[i].memory_id].user_id = user_id
        idx == SelectSeq([i \in 1..Len(matches) |-> i], Kept)
    IN  [j \in 1..Len(idx) |->
            ImageRow(mem, matches[idx[j]])]

\* the loop of ask_from_memories over semantic_matches
AskSemanticRows(mem, matches, user_id) ==
    LET Kept(i) == /\ HasMemory(mem, matches[i].memory_id)
                   /\ mem[matches[i].memory_id].user_id = user_id
        idx == SelectSeq([i \in 1..Len(matches) |-> i], Kept)
    IN  [j \in 1..Len(idx) |->
            WithSimilarity(RowOf(mem, matches[idx[j]].memory_id),
                           matches[idx[j]].similarity)]

\* the loop of ask_from_memories over the image matches
AskImageRows(mem, matches, user_id) ==
    LET Kept(i) == /\ HasMemory(mem, matches[i].memory_id)
                   /\ mem[matches[i].memory_id].user_id = user_id
        idx == SelectSeq([i \in 1..Len(matches) |-> i], Kept)
    IN  [j \in 1..Len(idx) |->
            ImageRow(mem, matches[idx[j]])]

----------------------------------------------------------------------------
(* Type filter *)

allowed_types == {"text", "image", "voice"}

\* t.strip().lower() on the filter values clients send here
StripLower(t) ==
    CASE t = " Voice" -> "voice"
      [] t = " "      -> ""
      [] OTHER        -> t

\* the validation of memory_type / memory_types: error is the detail of the
\* HTTPException(400) it raises, "" when it raises none
ParseTypeFilter(memory_type, memory_types) ==
    IF memory_type # NoneStr
    THEN IF StripLower(memory_type) \notin allowed_types
         THEN [error |-> "Invalid memory_type", filtered |-> FALSE, selected |-> {}]
         ELSE [error |-> "", filtered |-> TRUE,
               selected |-> {StripLower(memory_type)}]
    ELSE IF memory_types.given
    THEN LET NonEmpty(t) == StripLower(t) # ""
             kept == SelectSeq(memory_types.items, NonEmpty)
             parsed == [i \in 1..Len(kept) |-> StripLower(kept[i])]
         IN  IF parsed = <<>>
             THEN [error |-> "Invalid memory_types", filtered |-> FALSE,
                   selected |-> {}]
             ELSE IF \E i \in 1..Len(parsed) : parsed[i] \notin allowed_types
             THEN [error |-> "Invalid memory_types", filtered |-> FALSE,
                   selected |-> {}]
             ELSE [error |-> "", filtered |-> TRUE,
                   selected |-> {parsed[i] : i \in 1..Len(parsed)}]
    ELSE [error |-> "", filtered |-> FALSE, selected |-> {}]

\* [m for m in results if (m or {}).get("type") in selected_types]
FilterByType(results, f) ==
    LET Selected(m) == m.type \in f.selected
    IN  IF f.filtered THEN SelectSeq(results, Selected) ELSE results

\* the three lists fused first and the result filtered afterwards
FuseAndFilter(kw_results, sem_results, img_results, f, query, limit) ==
    LET r == _hybrid_rank_results(kw_results, sem_results, img_results, query,
                                  limit)
    IN  [raised |-> r.raised, results |-> FilterByType(r.results, f)]

\* the three lists are filtered by type, then handed to the fusion
FilterAndFuse(kw_results, sem_results, img_results, f, query, limit) ==
    _hybrid_rank_results(FilterByType(kw_results, f), FilterByType(sem_results, f),
                         FilterByType(img_results, f), query, limit)

\* a failed candidate source reaching the outer except as well
SearchStatusSourceErrorFatal(filter_error, fusion_raised, failed) ==
    IF filter_error # "" \/ fusion_raised \/ failed # {} THEN "500" ELSE "200"

\* a selector that lets every source be queried
SelectsAll(search_type, source) == TRUE

\* status of the answer of search_memories: an exception raised in the outer
\* try (the HTTPException(400) of the type filter, an error of the fusion)
\* reaches "except Exception" and becomes HTTPException(500); the error of a
\* candidate source was caught where it occurred
SearchStatus(filter_error, fusion_raised, failed) ==
    IF filter_error # "" \/ fusion_raised THEN "500" ELSE "200"

----------------------------------------------------------------------------
(* search_memories *)

Respond(status, results, breakdown) ==
    [status |-> status, memories |-> results, breakdown |-> breakdown]

\* a breakdown that counts the keyword list three times
BreakdownKeywordOnly(kw_results, sem_results, img_results) ==
    <<Len(kw_results), Len(kw_results), Len(kw_results)>>

\* "breakdown": keyword_matches, semantic_matches, image_matches are the
\* lengths of the three local lists as they are when the response is built
Breakdown(kw_results, sem_results, img_results) ==
    <<Len(kw_results), Len(sem_results), Len(img_results)>>

\* search_type in ["hybrid", source]
Selects(search_type, source) == search_type \in {"hybrid", source}

\* a client sends a request to one of the two endpoints
Receive ==
    /\ pc = "idle"
    /\ \E h \in Handlers, u \in Users, q \in FlowQueries, l \in FlowLimits,
          st \in SearchTypes, f \in FilterParams :
         /\ request' = [handler |-> h, user_id |-> u, query |-> q, limit |-> l,
                        search_type |-> st, memory_type |-> f.memory_type,
                        memory_types |-> f.memory_types]
         /\ pc' = IF h = "search_memories" THEN "search_keyword"
                  ELSE "ask_validate"
    /\ UNCHANGED <<_initialized, init_runs, store_call, tasks, frames, answer_call, heap, scorer_call, hash_seed, memories,
                   keyword_results, semantic_results, image_results,
                   source_calls, source_failed, retrieved, response>>

\* 1. keyword search, or its except branch
SearchKeyword ==
    /\ pc = "search_keyword"
    /\ IF Selects(request.search_type, "keyword")
       THEN /\ source_calls' = source_calls \cup {"keyword"}
            /\ \/ /\ keyword_results' =
                        advanced_search_memories(memories, request.query,
                                                 request.limit, request.user_id)
                  /\ UNCHANGED source_failed
               \/ /\ keyword_results' = <<>>
                  /\ source_failed' = source_failed \cup {"keyword"}
       ELSE UNCHANGED <<keyword_results, source_calls, source_failed>>
    /\ pc' = "search_semantic"
    /\ UNCHANGED <<_initialized, init_runs, store_call, tasks, frames, answer_call, heap, scorer_call, hash_seed, memories,
                   request, semantic_results, image_results, retrieved,
                   response>>

\* 2. semantic search, or its except branch
SearchSemantic ==
    /\ pc = "search_semantic"
    /\ IF Selects(request.search_type, "semantic")
       THEN /\ source_calls' = source_calls \cup {"semantic"}
            /\ \/ /\ \E matches \in SemanticAnswers(request.limit * 2, 45) :
                       \E bad \in SUBSET (1..Len(matches)) :
                         semantic_results' =
                             SearchSemanticRows(memories, matches, bad,
                                                request.user_id)
                  /\ UNCHANGED source_failed
               \/ /\ semantic_results' = <<>>
                  /\ source_failed' = source_failed \cup {"semantic"}
       ELSE UNCHANGED <<semantic_results, source_calls, source_failed>>
    /\ pc' = "search_image"
    /\ UNCHANGED <<_initialized, init_runs, store_call, tasks, frames, answer_call, heap, scorer_call, hash_seed, memories,
                   request, keyword_results, image_results, retrieved,
                   response>>

\* 3. image search, or its except branch; embedding_processor reaches the
\* handler initialized, its image_collection set
SearchImage ==
    /\ pc = "search_image"
    /\ IF Selects(request.search_type, "image")
       THEN \/ /\ source_calls' = source_calls \cup {"image"}
               /\ \E matches \in ImageAnswers(request.limit * 2) :
                    \E bad \in SUBSET (1..Len(matches)) :
                      image_results' =
                          SearchImageRows(memories, matches, bad, request.user_id)
               /\ UNCHANGED source_failed
            \/ /\ source_calls' = source_calls \cup {"image"}
               /\ image_results' = <<>>
               /\ source_failed' = source_failed \cup {"image"}
       ELSE UNCHANGED <<image_results, source_calls, source_failed>>
    /\ pc' = "search_finish"
    /\ UNCHANGED <<_initialized, init_runs, store_call, tasks, frames, answer_call, heap, scorer_call, hash_seed, memories,
                   request, keyword_results, semantic_results,
                   retrieved, response>>

\* 4.-6. type filter, fusion and the response; every exception raised in the
\* body, the HTTPException(400) of the filter included, reaches
\* "except Exception" and becomes HTTPException(500)
SearchFinish ==
    /\ pc = "search_finish"
    /\ LET f == ParseTypeFilter(request.memory_type, request.memory_types)
           r == FilterAndFuse(keyword_results, semantic_results, image_results,
                              f, request.query, request.limit)
           status == SearchStatus(f.error, r.raised, source_failed)
       IN  /\ IF f.error # ""
              THEN UNCHANGED <<keyword_results, semantic_results, image_results>>
              ELSE /\ keyword_results' = FilterByType(keyword_results, f)
                   /\ semantic_results' = FilterByType(semantic_results, f)
                   /\ image_results' = FilterByType(image_results, f)
           /\ response' =
                IF status # "200" THEN Respond(status, <<>>, <<0, 0, 0>>)
                ELSE Respond("200", r.results,
                             Breakdown(FilterByType(keyword_results, f),
                                       FilterByType(semantic_results, f),
                                       FilterByType(image_results, f)))
    /\ retrieved' = [keyword |-> keyword_results, semantic |-> semantic_results,
                     image |-> image_results]
    /\ pc' = "done"
    /\ UNCHANGED <<_initialized, init_runs, store_call, tasks, frames, answer_call, heap, scorer_call, hash_seed, memories,
                   request, source_calls, source_failed>>

----------------------------------------------------------------------------
(* ask_from_memories *)

\* question = (request.question or "").strip() is empty
IsBlank(question) == Split(question) = <<>>

\* the question and the type filter are validated before anything is retrieved
AskValidate ==
    /\ pc = "ask_validate"
    /\ LET f == ParseTypeFilter(request.memory_type, request.memory_types)
       IN  IF IsBlank(request.query) \/ f.error # ""
           THEN /\ response' = Respond("400", <<>>, <<0, 0, 0>>)
                /\ pc' = "done"
           ELSE /\ pc' = "ask_keyword"
                /\ UNCHANGED response
    /\ UNCHANGED <<_initialized, init_runs, store_call, tasks, frames, answer_call, heap, scorer_call, hash_seed, memories,
                   request, keyword_results, semantic_results,
                   image_results, source_calls, source_failed, retrieved>>

\* the basic search of the relational store: rows of every user whose text
\* holds the whole query, ILIKE
search_memories(mem, query, limit) ==
    LET Matches(id) ==
            /\ id \in DOMAIN mem
            /\ \/ StrIn(Lower(query), Lower(RowOf(mem, id).processed_text))
               \/ StrIn(Lower(query), Lower(RowOf(mem, id).raw_text))
        ids == SelectSeq(IdsDesc(NumIds), Matches)
    IN  [i \in 1..Min2(limit, Len(ids)) |-> RowOf(mem, ids[i])]

\* a fallback whose call goes through
KeywordWithWorkingFallback(mem, query, limit, user_id) ==
    LET found == advanced_search_memories(mem, query, limit, user_id)
    IN  IF found = <<>> THEN search_memories(mem, query, limit) ELSE found

\* the try block of the keyword search of ask_from_memories: on an empty answer
\* the fallback postgres_db.search_memories is called with a user_id keyword
\* its signature does not accept; the TypeError is caught and the list stays
\* empty
KeywordWithFallback(mem, query, limit, user_id) ==
    LET found == advanced_search_memories(mem, query, limit, user_id)
    IN  IF found = <<>> THEN <<>> ELSE found

\* keyword search, or its except branch
AskKeyword ==
    /\ pc = "ask_keyword"
    /\ IF Selects(request.search_type, "keyword")
       THEN /\ source_calls' = source_calls \cup {"keyword"}
            /\ \/ /\ keyword_results' =
                        KeywordWithFallback(memories, request.query,
                                            request.limit, request.user_id)
                  /\ UNCHANGED source_failed
               \/ /\ keyword_results' = <<>>
                  /\ source_failed' = source_failed \cup {"keyword"}
       ELSE UNCHANGED <<keyword_results, source_calls, source_failed>>
    /\ pc' = "ask_semantic"
    /\ UNCHANGED <<_initialized, init_runs, store_call, tasks, frames, answer_call, heap, scorer_call, hash_seed, memories,
                   request, semantic_results, image_results, retrieved,
                   response>>

AskSemantic ==
    /\ pc = "ask_semantic"
    /\ IF Selects(request.search_type, "semantic")
       THEN /\ source_calls' = source_calls \cup {"semantic"}
            /\ \/ /\ \E matches \in SemanticAnswers(request.limit * 3, 10) :
                       semantic_results' =
                           AskSemanticRows(memories, matches, request.user_id)
                  /\ UNCHANGED source_failed
               \/ /\ semantic_results' = <<>>
                  /\ source_failed' = source_failed \cup {"semantic"}
       ELSE UNCHANGED <<semantic_results, source_calls, source_failed>>
    /\ pc' = "ask_image"
    /\ UNCHANGED <<_initialized, init_runs, store_call, tasks, frames, answer_call, heap, scorer_call, hash_seed, memories,
                   request, keyword_results, image_results, retrieved,
                   response>>

AskImage ==
    /\ pc = "ask_image"
    /\ IF Selects(request.search_type, "image")
       THEN \/ /\ source_calls' = source_calls \cup {"image"}
               /\ \E matches \in ImageAnswers(request.limit * 2) :
                    image_results' =
                        AskImageRows(memories, matches, request.user_id)
               /\ UNCHANGED source_failed
            \/ /\ source_calls' = source_calls \cup {"image"}
               /\ image_results' = <<>>
               /\ source_failed' = source_failed \cup {"image"}
       ELSE UNCHANGED <<image_results, source_calls, source_failed>>
    /\ pc' = "ask_fuse"
    /\ UNCHANGED <<_initialized, init_runs, store_call, tasks, frames, answer_call, heap, scorer_call, hash_seed, memories,
                   request, keyword_results, semantic_results,
                   retrieved, response>>

\* type filter and fusion; response.memories holds fused, whose ids are the
\* memory_ids of the answer
AskFuse ==
    /\ pc = "ask_fuse"
    /\ LET f == ParseTypeFilter(request.memory_type, request.memory_types)
           r == FilterAndFuse(keyword_results, semantic_results, image_results,
                              f, request.query, request.limit)
       IN  /\ keyword_results' = FilterByType(keyword_results, f)
           /\ semantic_results' = FilterByType(semantic_results, f)
           /\ image_results' = FilterByType(image_results, f)
           /\ IF r.raised
              THEN /\ response' = Respond("500", <<>>, <<0, 0, 0>>)
                   /\ pc' = "done"
              ELSE /\ response' = Respond("none", r.results, <<0, 0, 0>>)
                   /\ pc' = "ask_answer"
    /\ retrieved' = [keyword |-> keyword_results, semantic |-> semantic_results,
                     image |-> image_results]
    /\ UNCHANGED <<_initialized, init_runs, store_call, tasks, frames, answer_call, heap, scorer_call, hash_seed, memories,
                   request, source_calls, source_failed>>

\* a handler that answers 200 whether the answer call raised or not
AnswerStatusDegraded(raised) == "200"

\* status of the answer of ask_from_memories once groq_client.answer has
\* returned or raised: the except branch raises HTTPException(500)
AnswerStatus(raised) == IF raised THEN "500" ELSE "200"

\* groq_client.answer is called with the context built from fused; it returns,
\* or raises and the handler answers 500.  answer_call records the outcome and
\* the candidate sources called before the call was issued
AskAnswer ==
    /\ pc = "ask_answer"
    /\ \E raised \in BOOLEAN :
         /\ answer_call' = [outcome |-> IF raised THEN "raised" ELSE "returned",
                            sources_before |-> source_calls]
         /\ response' = IF AnswerStatus(raised) = "200"
                        THEN [response EXCEPT !.status = "200"]
                        ELSE Respond(AnswerStatus(raised), <<>>, <<0, 0, 0>>)
    /\ pc' = "done"
    /\ UNCHANGED <<_initialized, init_runs, store_call, tasks, frames, heap, scorer_call, hash_seed, memories,
                   request, keyword_results, semantic_results,
                   image_results, source_calls, source_failed, retrieved>>

----------------------------------------------------------------------------
(* The request handlers *)

NoRequest ==
    [handler |-> "none", user_id |-> 0, query |-> <<>>, limit |-> 0,
     search_type |-> "hybrid", memory_type |-> NoneStr, memory_types |-> NoneList]

Init ==
    /\ memories = SampleMemories
    /\ hash_seed \in HashSeeds
    /\ scorer_call = NoScorerCall
    /\ heap = NoHeap
    /\ answer_call = NoAnswerCall
    /\ tasks = NoTasks
    /\ frames = NoFrames
    /\ _initialized = TRUE
    /\ init_runs = OneRunEach
    /\ store_call = NoStoreCall
    /\ request = NoRequest
    /\ pc = "idle"
    /\ keyword_results = <<>>
    /\ semantic_results = <<>>
    /\ image_results = <<>>
    /\ source_calls = {}
    /\ source_failed = {}
    /\ retrieved = NothingRetrieved
    /\ response = NoResponse

Next ==
    \/ Receive
    \/ SearchKeyword
    \/ SearchSemantic
    \/ SearchImage
    \/ SearchFinish
    \/ AskValidate
    \/ AskKeyword
    \/ AskSemantic
    \/ AskImage
    \/ AskFuse
    \/ AskAnswer

Spec == Init /\ [][Next]_vars

----------------------------------------------------------------------------
(* Direct calls of _calculate_keyword_score *)

ScorerChars == {"x", "y", "X", " "}

\* texts of up to MaxTextLen characters
ScorerTexts == UNION {[1..n -> ScorerChars] : n \in 0..MaxTextLen}

\* terms as query.lower().split() yields them: lower case, no white space
ScorerTerms == {<<"x">>, <<"y">>, <<"x", "y">>}

\* a term set as the sequence its iteration yields: no term twice, any order
ScorerTermSets ==
    {q \in UNION {[1..n -> ScorerTerms] : n \in 0..MaxTerms} :
        \A i, j \in 1..Len(q) : q[i] = q[j] => i = j}

InitScore ==
    /\ \E t \in ScorerTexts : \E q \in ScorerTermSets :
         scorer_call = ScorerCall(t, q, FloatZero)
    /\ pc = "score"
    /\ heap = NoHeap
    /\ answer_call = NoAnswerCall
    /\ tasks = NoTasks
    /\ frames = NoFrames
    /\ _initialized = TRUE
    /\ init_runs = OneRunEach
    /\ store_call = NoStoreCall
    /\ memories = SampleMemories
    /\ hash_seed = 0
    /\ request = NoRequest
    /\ keyword_results = <<>>
    /\ semantic_results = <<>>
    /\ image_results = <<>>
    /\ source_calls = {}
    /\ source_failed = {}
    /\ retrieved = NothingRetrieved
    /\ response = NoResponse

CallKeywordScore ==
    /\ pc = "score"
    /\ scorer_call' =
           [scorer_call EXCEPT !.returned =
               _calculate_keyword_score(scorer_call.text,
                                        scorer_call.query_terms)]
    /\ pc' = "scored"
    /\ UNCHANGED <<_initialized, init_runs, store_call, tasks, frames, answer_call, heap, hash_seed, memories, request,
                   keyword_results, semantic_results, image_results,
                   source_calls, source_failed, retrieved, response>>

NextScore == CallKeywordScore

SpecScore == InitScore /\ [][NextScore]_vars

----------------------------------------------------------------------------
(* Direct calls of _hybrid_rank_results, followed object by object *)

\* the dicts the caller holds: one for M1 as a keyword row, one for M2 and a
\* second one for M1, each with a similarity
HeapPool ==
    <<WithSimilarity(Row(1, 1, SampleType(1)), 60),
      WithSimilarity(Row(2, 1, SampleType(2)), 80),
      WithSimilarity(Row(1, 1, SampleType(1)), 70)>>

HeapRefs == 1..Len(HeapPool)

HeapLimits == {1, 2}

\* lists of up to n references to the caller's dicts; a dict may be referred
\* to more than once
RefLists(n) == UNION {[1..k -> HeapRefs] : k \in 0..n}

InitHeap ==
    /\ \E kw \in RefLists(MaxHeapRefs) :
       \E sem \in RefLists(MaxHeapRefs - Len(kw)) :
       \E img \in RefLists(MaxHeapRefs - Len(kw) - Len(sem)) :
         /\ heap = HeapOf(HeapPool,
                          [keyword |-> kw, semantic |-> sem, image |-> img])
         /\ keyword_results = Deref(HeapPool, kw)
         /\ semantic_results = Deref(HeapPool, sem)
         /\ image_results = Deref(HeapPool, img)
    /\ \E q \in Queries : \E l \in HeapLimits : request = DirectRequest(q, l)
    /\ memories = SampleMemories
    /\ hash_seed = 0
    /\ scorer_call = NoScorerCall
    /\ answer_call = NoAnswerCall
    /\ tasks = NoTasks
    /\ frames = NoFrames
    /\ _initialized = TRUE
    /\ init_runs = OneRunEach
    /\ store_call = NoStoreCall
    /\ pc = "call"
    /\ source_calls = {}
    /\ source_failed = {}
    /\ retrieved = NothingRetrieved
    /\ response = NoResponse

\* the objects once the call r has ended
HeapAfter(hp, r) ==
    [before |-> hp.before,
     after |-> [objects |-> r.objects, lists |-> r.lists],
     raised |-> r.raised,
     returned |-> r.returned]

\* what the caller gets: the dicts of the returned list, or the exception
HeapResponse(hp) ==
    IF hp.raised
    THEN [status |-> "raised", memories |-> <<>>, breakdown |-> <<0, 0, 0>>]
    ELSE [status |-> "returned",
          memories |-> Deref(hp.after.objects, hp.returned),
          breakdown |-> <<0, 0, 0>>]

CallHybridRankOnHeap ==
    /\ pc = "call"
    /\ heap' = HeapAfter(heap, HeapRun(heap.before, QueryTerms(request.query),
                                       request.limit))
    /\ response' = HeapResponse(heap')
    /\ pc' = "returned"
    /\ UNCHANGED <<_initialized, init_runs, store_call, tasks, frames, answer_call, scorer_call, hash_seed, memories, request,
                   keyword_results, semantic_results, image_results,
                   source_calls, source_failed, retrieved>>

NextHeap == CallHybridRankOnHeap

SpecHeap == InitHeap /\ [][NextHeap]_vars

----------------------------------------------------------------------------
(* Properties of _hybrid_rank_results.  In a state where the fusion has      *)
(* returned, keyword_results, semantic_results and image_results are the  *)
(* three lists it was given.                                               *)

Fused == pc \in {"returned", "done"} /\ response.status \in {"returned", "200"}

Out == response.memories

OutIds == {Out[k].id : k \in 1..Len(Out)}

InputIds ==
    {keyword_results[i].id : i \in 1..Len(keyword_results)}
    \cup {semantic_results[i].id : i \in 1..Len(semantic_results)}
    \cup {image_results[i].id : i \in 1..Len(image_results)}

\* the sort keys of the three lists, each as a tuple (concatenated with the
\* empty tuple so that every key is computed once)
KeywordKeys ==
    [i \in 1..Len(keyword_results) |->
        _calculate_keyword_score(
            keyword_results[i].processed_text \o <<" ">> \o keyword_results[i].raw_text,
            QueryTerms(request.query))] \o <<>>

SemanticKeys ==
    [i \in 1..Len(semantic_results) |->
        KeyOf(Get(semantic_results[i].similarity_score, 0))] \o <<>>

ImageKeys ==
    [i \in 1..Len(image_results) |->
        KeyOf(Get(image_results[i].similarity_score, 0))] \o <<>>

\* 1-based position of entry i once its list is ordered best-first: entries
\* with a larger key come before it, and so do earlier entries with its key
BestFirstRank(keys, i) ==
    1 + Cardinality({j \in 1..Len(keys) :
                        FloatGt(keys[j], keys[i]) \/ (keys[j] = keys[i] /\ j < i)})

\* the positions, best-first, at which id occurs in a list
RanksOf(list, keys, id) ==
    {BestFirstRank(keys, i) : i \in {j \in 1..Len(list) : list[j].id = id}}

RECURSIVE SumReciprocals(_)
\* sum of 1/(60 + r) over the ranks r of a set, times RrfScale
SumReciprocals(ranks) ==
    IF ranks = {} THEN 0
    ELSE LET r == CHOOSE x \in ranks : TRUE
         IN  RrfScale \div (60 + r) + SumReciprocals(ranks \ {r})

Least(ranks) == CHOOSE r \in ranks : \A x \in ranks : r <= x

SourceRanks(source, id) ==
    CASE source = "keyword"  -> RanksOf(keyword_results, KeywordKeys, id)
      [] source = "semantic" -> RanksOf(semantic_results, SemanticKeys, id)
      [] source = "image"    -> RanksOf(image_results, ImageKeys, id)

Sources == {"keyword", "semantic", "image"}

\* the list of a source as the fusion was given it
ListOf(source) ==
    CASE source = "keyword"  -> keyword_results
      [] source = "semantic" -> semantic_results
      [] source = "image"    -> image_results

\* the list holds a record with this id
HoldsId(list, id) == \E i \in 1..Len(list) : list[i].id = id

\* what the occurrences of id in one source add up to
SourceSum(source, id) == SumReciprocals(SourceRanks(source, id))

\* one term per occurrence of id, over the three lists
OccurrenceSum(id) ==
    SourceSum("keyword", id) + SourceSum("semantic", id) + SourceSum("image", id)

\* one term per source holding id, at the best position id has in it
PerSourceSum(id) ==
    LET Term(source) ==
            IF SourceRanks(source, id) = {} THEN 0
            ELSE RrfScale \div (60 + Least(SourceRanks(source, id)))
    IN  Term("keyword") + Term("semantic") + Term("image")

\* C1 as stated: every returned record's hybrid_score is the sum, over the
\* sources in which its id appears, of 1/(60 + r), r being the record's position
\* in that source's best-first list.  Fails when an id occurs twice in one list.
C1_ScoreIsSumOverSources ==
    Fused => \A k \in 1..Len(Out) : Out[k].hybrid_score = PerSourceSum(Out[k].id)

\* C1 amended: every returned record's hybrid_score is the sum, over every
\* occurrence of its id in the three lists, of 1/(60 + r), r being the position
\* of that occurrence in its list ordered best-first.
C1_ScoreIsSumOverOccurrences ==
    Fused => \A k \in 1..Len(Out) : Out[k].hybrid_score = OccurrenceSum(Out[k].id)

\* a returned record found twice in the semantic list and once in the keyword
\* list
C1_Witness ==
    /\ pc = "returned"
    /\ response.status = "returned"
    /\ \E k \in 1..Len(Out) :
         /\ Cardinality(SourceRanks("semantic", Out[k].id)) = 2
         /\ Cardinality(SourceRanks("keyword", Out[k].id)) = 1
         /\ Out[k].hybrid_score > PerSourceSum(Out[k].id)

\* keyword [M1, M2], semantic [M2, M3], image [], each list best-first
IsScenario ==
    /\ request.query = <<"X">>
    /\ Len(keyword_results) = 2
    /\ keyword_results[1].id = 1 /\ keyword_results[2].id = 2
    /\ Len(semantic_results) = 2
    /\ semantic_results[1].id = 2 /\ semantic_results[2].id = 3
    /\ semantic_results[1].similarity_score > semantic_results[2].similarity_score
    /\ image_results = <<>>

\* C2: for limit >= 0 the returned list is in non-increasing hybrid_score
\* order, has min(limit, number of distinct ids) entries, and no omitted record
\* scores strictly higher than a returned one; keyword [M1, M2], semantic
\* [M2, M3], image [] comes out as M2, M1, M3.
C2_SortedTopLimit ==
    Fused =>
      /\ \A k \in 1..(Len(Out) - 1) : Out[k].hybrid_score >= Out[k + 1].hybrid_score
      /\ Len(Out) = Min2(request.limit, Cardinality(InputIds))
      /\ \A id \in InputIds \ OutIds :
           \A k \in 1..Len(Out) : OccurrenceSum(id) <= Out[k].hybrid_score
      /\ IsScenario =>
           [k \in 1..Len(Out) |-> Out[k].id] = SubSeq(<<2, 1, 3>>, 1, Min2(request.limit, 3))

\* the scenario cut to its best two records
C2_Witness ==
    /\ pc = "returned"
    /\ response.status = "returned"
    /\ IsScenario
    /\ request.limit = 2
    /\ [k \in 1..Len(Out) |-> Out[k].id] = <<2, 1>>

\* C3: every record id occurs at most once in the returned list.
C3_Deduplicated ==
    Fused => \A j, k \in 1..Len(Out) : j # k => Out[j].id # Out[k].id

\* the only returned record was found twice in the keyword list and once in the
\* semantic list
C3_Witness ==
    /\ pc = "returned"
    /\ response.status = "returned"
    /\ \E k \in 1..Len(Out) :
         /\ Cardinality(SourceRanks("keyword", Out[k].id)) = 2
         /\ Cardinality(SourceRanks("semantic", Out[k].id)) = 1
    /\ Len(Out) = 1

\* the input lists without the records that have no identifier
WellFormedOnly(list) ==
    LET HasId(m) == m.id # Missing IN SelectSeq(list, HasId)

HasMalformed ==
    \/ \E i \in 1..Len(keyword_results) : keyword_results[i].id = Missing
    \/ \E i \in 1..Len(semantic_results) : semantic_results[i].id = Missing
    \/ \E i \in 1..Len(image_results) : image_results[i].id = Missing

\* C9: when a list holds a record without an identifier, the record is skipped
\* and the call returns the fused ranking of the remaining records.
C9_MalformedSkipped ==
    (pc = "returned" /\ HasMalformed) =>
      /\ response.status = "returned"
      /\ response.memories =
           _hybrid_rank_results(WellFormedOnly(keyword_results),
                                WellFormedOnly(semantic_results),
                                WellFormedOnly(image_results),
                                request.query, request.limit).results

\* whether a record sits exactly once, at rank 1, in each source of a given
\* set and in no other source
AtRankOneExactlyIn(id, srcs) ==
    \A s \in Sources :
      SourceRanks(s, id) = IF s \in srcs THEN {1} ELSE {}

\* whether a record sits exactly once, at rank 1, in each of exactly n sources
\* and in no other source
AtRankOneInExactly(id, n) ==
    /\ \A s \in Sources : SourceRanks(s, id) \subseteq {1}
    /\ Cardinality({s \in Sources : SourceRanks(s, id) = {1}}) = n

\* what the sources other than s give id
OtherSourcesSum(s, id) ==
    (IF s # "keyword" THEN SourceSum("keyword", id) ELSE 0)
    + (IF s # "semantic" THEN SourceSum("semantic", id) ELSE 0)
    + (IF s # "image" THEN SourceSum("image", id) ELSE 0)

\* C10: a record at rank 1 in two sources scores 2/61, strictly more than the
\* 1/61 of a record at rank 1 in one source only; and every contributing
\* source strictly increases a record's hybrid_score over what its other
\* sources give it.
C10_MultiSourceBoost ==
    Fused =>
      LET InTwo == {k \in 1..Len(Out) : AtRankOneInExactly(Out[k].id, 2)}
          InOne == {k \in 1..Len(Out) : AtRankOneInExactly(Out[k].id, 1)}
      IN  /\ \A k \in 1..Len(Out) :
               \A s \in Sources :
                 HoldsId(ListOf(s), Out[k].id) =>
                   Out[k].hybrid_score > OtherSourcesSum(s, Out[k].id)
          /\ \A j \in InTwo : Out[j].hybrid_score * 61 = 2 * RrfScale
          /\ \A k \in InOne : Out[k].hybrid_score * 61 = RrfScale
          /\ \A j \in InTwo :
               \A k \in InOne : Out[j].hybrid_score > Out[k].hybrid_score

\* one record at rank 1 of the keyword and of the semantic list, another at
\* rank 1 of the image list only, both returned
C10_Witness ==
    /\ pc = "returned"
    /\ response.status = "returned"
    /\ \E j, k \in 1..Len(Out) :
         /\ AtRankOneExactlyIn(Out[j].id, {"keyword", "semantic"})
         /\ AtRankOneExactlyIn(Out[k].id, {"image"})
         /\ Out[j].hybrid_score > Out[k].hybrid_score

----------------------------------------------------------------------------
(* Properties of the request handlers *)

\* the handler has fused: search_memories answered 200, or ask_from_memories
\* holds fused (its answer call pending or answered)
FlowFused ==
    /\ request.handler \in Handlers
    /\ \/ pc = "done" /\ response.status = "200"
       \/ pc = "ask_answer"

ValidTypes == {"text", "image", "voice"}
ValidSearchTypes == {"hybrid", "keyword", "semantic", "image"}

FilterGiven == request.memory_type # NoneStr \/ request.memory_types.given

\* the types the request names, blanks dropped
RequestedTypes ==
    IF request.memory_type # NoneStr
    THEN {StripLower(request.memory_type)}
    ELSE {StripLower(request.memory_types.items[i]) :
             i \in 1..Len(request.memory_types.items)} \ {""}

\* the filter names a type that is not text, image or voice
InvalidFilter == FilterGiven /\ ~(RequestedTypes \subseteq ValidTypes)

\* the filter names valid types only, and at least one
AcceptableFilter ==
    FilterGiven => (RequestedTypes # {} /\ RequestedTypes \subseteq ValidTypes)

OfRequestedType(list) ==
    LET Keep(m) == m.type \in RequestedTypes IN SelectSeq(list, Keep)

IdsOf(list) == [i \in 1..Len(list) |-> list[i].id]

\* C4: with a type filter, the records of unselected types leave each of the
\* three lists before the fusion: no returned record has an unselected type,
\* and ranks and scores are those of the selected records alone (keyword list
\* [X(image), Y(text)] with filter text: Y is fused at rank 1).
C4_FilterBeforeFuse ==
    (FlowFused /\ FilterGiven) =>
      /\ \A k \in 1..Len(Out) : Out[k].type \in RequestedTypes
      /\ keyword_results = OfRequestedType(retrieved.keyword)
      /\ semantic_results = OfRequestedType(retrieved.semantic)
      /\ image_results = OfRequestedType(retrieved.image)
      /\ \A k \in 1..Len(Out) : Out[k].hybrid_score = OccurrenceSum(Out[k].id)
      /\ OutIds \subseteq InputIds
      /\ (/\ request.search_type = "keyword"
          /\ RequestedTypes = {"text"}
          /\ Len(retrieved.keyword) = 2
          /\ retrieved.keyword[1].type = "image"
          /\ retrieved.keyword[2].type = "text")
         => /\ IdsOf(Out) = <<retrieved.keyword[2].id>>
            /\ Out[1].hybrid_score * 61 = RrfScale

\* search_memories fused the keyword list [X(image), Y(text)] under the filter
\* text
C4_Witness ==
    /\ pc = "done"
    /\ request.handler = "search_memories"
    /\ response.status = "200"
    /\ request.search_type = "keyword"
    /\ RequestedTypes = {"text"}
    /\ Len(retrieved.keyword) = 2
    /\ retrieved.keyword[1].type = "image"
    /\ retrieved.keyword[2].type = "text"
    /\ IdsOf(Out) = <<retrieved.keyword[2].id>>

\* C5: a request to search_memories or ask_from_memories with an invalid type
\* filter is answered with a 400-class client error.
C5_InvalidFilterIs400 ==
    (pc = "done" /\ request.handler \in Handlers /\ InvalidFilter)
      => response.status = "400"

\* C6: in a request with an invalid type filter no candidate source is ever
\* called.
C6_NoRetrievalOnInvalidFilter ==
    (request.handler \in Handlers /\ InvalidFilter) => source_calls = {}

\* C7: a request, otherwise valid, whose search_type is not hybrid, keyword,
\* semantic or image is rejected with a client-error status before any
\* retrieval instead of being answered with a result list.
C7_InvalidSearchTypeRejected ==
    (/\ pc = "done"
     /\ request.handler \in Handlers
     /\ request.search_type \notin ValidSearchTypes
     /\ AcceptableFilter
     /\ ~IsBlank(request.query))
      => response.status = "400" /\ source_calls = {}

RetrievedFrom(source) ==
    CASE source = "keyword"  -> retrieved.keyword
      [] source = "semantic" -> retrieved.semantic
      [] source = "image"    -> retrieved.image

MatchedBy(m, source) ==
    \E j \in 1..Len(m.match_types) : m.match_types[j] = source

\* C8: in search_memories, for a request with an acceptable type filter, a
\* candidate source whose call raises contributes an empty list, the other
\* requested sources are still queried and fused, and the request is answered
\* 200; when all three raise the result list is empty.
C8_SourceFailureTolerated ==
    (pc = "done" /\ request.handler = "search_memories" /\ AcceptableFilter) =>
      /\ response.status = "200"
      /\ \A s \in source_failed :
           /\ RetrievedFrom(s) = <<>>
           /\ \A k \in 1..Len(Out) : ~MatchedBy(Out[k], s)
      /\ request.search_type \in {"hybrid", "keyword"} => "keyword" \in source_calls
      /\ request.search_type \in {"hybrid", "semantic"} => "semantic" \in source_calls
      /\ \A k \in 1..Len(Out) : Out[k].hybrid_score = OccurrenceSum(Out[k].id)
      /\ Len(Out) = Min2(request.limit, Cardinality(InputIds))
      /\ source_failed = Sources => Out = <<>>

\* the semantic source raised, the keyword and the image source answered, and
\* the response holds a record matched by both
C8_Witness ==
    /\ pc = "done"
    /\ request.handler = "search_memories"
    /\ source_failed = {"semantic"}
    /\ response.status = "200"
    /\ \E k \in 1..Len(Out) :
         MatchedBy(Out[k], "keyword") /\ MatchedBy(Out[k], "image")

----------------------------------------------------------------------------
(* Further properties of the rank fusion *)

\* the sources whose list holds id
SourcesOf(id) == {s \in Sources : HoldsId(ListOf(s), id)}

\* id occurs at most once in every list
OnceInEach(id) ==
    \A s \in Sources :
        \A i, j \in 1..Len(ListOf(s)) :
            ListOf(s)[i].id = id /\ ListOf(s)[j].id = id => i = j

\* a and b are matched by the same sources, once in each, and a's rank is no
\* worse than b's in every one of them
RanksNoWorse(a, b) ==
    /\ OnceInEach(a) /\ OnceInEach(b)
    /\ SourcesOf(a) = SourcesOf(b)
    /\ \A s \in SourcesOf(a) : Least(SourceRanks(s, a)) <= Least(SourceRanks(s, b))

Observed(source, id) ==
    CASE source = "keyword" ->
           {KeywordKeys[i] : i \in {j \in 1..Len(keyword_results) :
                                        keyword_results[j].id = id}}
      [] source = "semantic" ->
           {SemanticKeys[i] : i \in {j \in 1..Len(semantic_results) :
                                         semantic_results[j].id = id}}
      [] source = "image" ->
           {ImageKeys[i] : i \in {j \in 1..Len(image_results) :
                                      image_results[j].id = id}}

Greatest(scores) == CHOOSE x \in scores : \A y \in scores : FloatGeq(x, y)

\* the score field of a fused record that belongs to a source, as a key
ScoreField(m, source) ==
    CASE source = "keyword"  -> m.keyword_score
      [] source = "semantic" -> KeyOf(m.semantic_score)
      [] source = "image"    -> KeyOf(m.image_score)

\* C12 as stated: every fused record's keyword_score, semantic_score and
\* image_score equal the greatest score observed for the record in that
\* source's list, and 0.0 when the record is not in the list.  Fails for a
\* record whose observed similarity is negative.
C12_ScoreIsMaxObserved ==
    Fused =>
      \A k \in 1..Len(Out) :
        \A s \in Sources :
          ScoreField(Out[k], s) =
            IF Observed(s, Out[k].id) = {} THEN FloatZero
            ELSE Greatest(Observed(s, Out[k].id))

\* C12 amended: every fused record's keyword_score, semantic_score and
\* image_score equal the greatest of 0.0 and the scores observed for the
\* record in that source's list; a later, worse-ranked occurrence of the
\* record never lowers the score.
C12_ScoreIsMaxObservedOrZero ==
    Fused =>
      \A k \in 1..Len(Out) :
        \A s \in Sources :
          ScoreField(Out[k], s) =
            Greatest(Observed(s, Out[k].id) \cup {FloatZero})

\* a returned record found in the semantic list with two different
\* similarities, holding the greater one
C12_Witness ==
    /\ pc = "returned"
    /\ response.status = "returned"
    /\ \E k \in 1..Len(Out) :
         /\ Cardinality(Observed("semantic", Out[k].id)) = 2
         /\ KeyOf(Out[k].semantic_score) =
              Greatest(Observed("semantic", Out[k].id))

\* n entries naming one source
Repeat(source, n) == [i \in 1..n |-> source]

\* how many times id occurs in the list of a source
Occurrences(source, id) ==
    Cardinality({i \in 1..Len(ListOf(source)) : ListOf(source)[i].id = id})

\* C13 as stated: match_types lists each source whose list holds the record
\* once, and no other source, in the order keyword, semantic, image.  Fails
\* when the record occurs twice in one list.
C13_MatchTypesOncePerSource ==
    Fused =>
      \A k \in 1..Len(Out) :
        Out[k].match_types =
          Repeat("keyword", Min2(1, Occurrences("keyword", Out[k].id)))
          \o Repeat("semantic", Min2(1, Occurrences("semantic", Out[k].id)))
          \o Repeat("image", Min2(1, Occurrences("image", Out[k].id)))

\* C13 amended: match_types holds one entry per occurrence of the record in
\* the three lists, the keyword entries first, then the semantic ones, then
\* the image ones; so a source is listed if and only if its list holds the
\* record, and once when the record occurs once in that list.
C13_MatchTypesOncePerOccurrence ==
    Fused =>
      \A k \in 1..Len(Out) :
        /\ Out[k].match_types =
             Repeat("keyword", Occurrences("keyword", Out[k].id))
             \o Repeat("semantic", Occurrences("semantic", Out[k].id))
             \o Repeat("image", Occurrences("image", Out[k].id))
        /\ \A s \in Sources : MatchedBy(Out[k], s) <=> s \in SourcesOf(Out[k].id)

\* a returned record found once in the keyword list and twice in the semantic
\* list
C13_Witness ==
    /\ pc = "returned"
    /\ response.status = "returned"
    /\ \E k \in 1..Len(Out) :
         /\ Occurrences("semantic", Out[k].id) = 2
         /\ Out[k].match_types = <<"keyword", "semantic", "semantic">>

\* when the accumulator of id is created: while walking the keyword list, else
\* the semantic list, else the image list, at the best rank id has there
EncounterOrder(id) ==
    IF SourceRanks("keyword", id) # {}
    THEN Least(SourceRanks("keyword", id))
    ELSE IF SourceRanks("semantic", id) # {}
    THEN MaxRank + Least(SourceRanks("semantic", id))
    ELSE 2 * MaxRank + Least(SourceRanks("image", id))

\* C14: records of equal hybrid_score come out in encounter order, the order
\* in which their accumulators were created while walking the keyword, then
\* the semantic, then the image list; and of records of equal hybrid_score at
\* the cut, those encountered first are the ones returned.
C14_TiesInEncounterOrder ==
    Fused =>
      /\ \A j, k \in 1..Len(Out) :
           (j < k /\ Out[j].hybrid_score = Out[k].hybrid_score)
             => EncounterOrder(Out[j].id) < EncounterOrder(Out[k].id)
      /\ \A id \in InputIds \ OutIds :
           \A k \in 1..Len(Out) :
             Out[k].hybrid_score = OccurrenceSum(id)
               => EncounterOrder(Out[k].id) < EncounterOrder(id)

\* three records of equal hybrid_score, one from each list, returned in the
\* order keyword, semantic, image
C14_Witness ==
    /\ pc = "returned"
    /\ response.status = "returned"
    /\ Len(Out) = 3
    /\ Out[1].hybrid_score = Out[2].hybrid_score
    /\ Out[2].hybrid_score = Out[3].hybrid_score
    /\ Out[1].match_types = <<"keyword">>
    /\ Out[2].match_types = <<"semantic">>
    /\ Out[3].match_types = <<"image">>

\* at least one of the three lists is empty, and every record has an id
SomeListEmpty ==
    /\ keyword_results = <<>> \/ semantic_results = <<>> \/ image_results = <<>>
    /\ ~HasMalformed

\* C15 as stated: with three empty lists the call returns an empty list, and
\* with any subset of the lists empty it returns exactly the records of the
\* non-empty lists, each with a positive hybrid_score.  Fails when limit is
\* below the number of records.
C15_EmptyListsReturnAll ==
    (pc = "returned" /\ SomeListEmpty) =>
      /\ response.status = "returned"
      /\ OutIds = InputIds
      /\ \A k \in 1..Len(Out) : Out[k].hybrid_score > 0

\* C15 amended: empty lists never make the call raise; with three empty lists
\* it returns an empty list, and with any subset of the lists empty it returns
\* the best min(limit, n) of the n records of the non-empty lists, all of them
\* when limit >= n, each with a positive hybrid_score that is the sum of its
\* contributions.
C15_EmptyListsTolerated ==
    (pc = "returned" /\ SomeListEmpty) =>
      /\ response.status = "returned"
      /\ OutIds \subseteq InputIds
      /\ Len(Out) = Min2(request.limit, Cardinality(InputIds))
      /\ request.limit >= Cardinality(InputIds) => OutIds = InputIds
      /\ \A k \in 1..Len(Out) :
           /\ Out[k].hybrid_score > 0
           /\ Out[k].hybrid_score = OccurrenceSum(Out[k].id)
      /\ InputIds = {} => Out = <<>>

\* the keyword and the image list empty, two records in the semantic list, both
\* returned
C15_Witness ==
    /\ pc = "returned"
    /\ response.status = "returned"
    /\ keyword_results = <<>>
    /\ image_results = <<>>
    /\ Len(semantic_results) = 2
    /\ Len(Out) = 2
    /\ \A k \in 1..Len(Out) : Out[k].hybrid_score > 0

----------------------------------------------------------------------------
(* Determinism across processes *)

\* what a call with the lists, query and limit of this state returns in a
\* process of the given hash seed
RunUnder(seed) ==
    RankWithTerms(keyword_results, semantic_results, image_results,
                  QueryTermsUnder(request.query, seed), request.limit)

\* identifier and hybrid_score of every record of a result, in order
Ranking(results) ==
    [k \in 1..Len(results) |-> <<results[k].id, results[k].hybrid_score>>]

\* C16: two runs of _hybrid_rank_results on the same candidate lists, the same
\* query and the same limit give every record the same hybrid_score and return
\* the records in the same order, whatever process each run happens in
C16_Deterministic ==
    Fused =>
        \A seed \in HashSeeds :
            /\ ~RunUnder(seed).raised
            /\ Ranking(RunUnder(seed).results) = Ranking(Out)

----------------------------------------------------------------------------
(* Properties of _calculate_keyword_score *)

Scored == pc = "scored"

\* some term of the call occurs in the lower-cased text
SomeTermOccurs ==
    \E i \in 1..Len(scorer_call.query_terms) :
        StrIn(scorer_call.query_terms[i], Lower(scorer_call.text))

\* C17: _calculate_keyword_score returns 0.0 for an empty text, for an empty
\* term set and when no term occurs in the lower-cased text; it returns more
\* than 0 when some term occurs; and what it returns lies in [0, 10.0]
C17_ScorerBoundary ==
    Scored =>
        /\ (scorer_call.text = <<>> \/ scorer_call.query_terms = <<>>
              \/ ~SomeTermOccurs) => scorer_call.returned = FloatZero
        /\ SomeTermOccurs => FloatGt(scorer_call.returned, FloatZero)
        /\ FloatGeq(scorer_call.returned, FloatZero)
        /\ FloatGeq(FloatOfHalves(20), scorer_call.returned)

\* score("x x x", {x}) has been computed and is 7.0, more than the 0.0 of
\* score("y y y", {x})
C17_Witness ==
    /\ Scored
    /\ scorer_call.text = <<"x", " ", "x", " ", "x">>
    /\ scorer_call.query_terms = << <<"x">> >>
    /\ scorer_call.returned = FloatOfHalves(14)
    /\ _calculate_keyword_score(<<"y", " ", "y", " ", "y">>, << <<"x">> >>)
           = FloatZero

----------------------------------------------------------------------------
(* The search_type selector *)

\* the request has gone through the three retrieval steps of its handler
\* (ask_from_memories answers 400 before them when validation fails)
RetrievalDone ==
    /\ request.handler \in Handlers
    /\ \/ pc \in {"search_finish", "ask_fuse", "ask_answer"}
       \/ pc = "done" /\ response.status # "400"

SingleSource == {"keyword", "semantic", "image"}

\* C18: the keyword source is called if and only if search_type is hybrid or
\* keyword, the semantic source if and only if it is hybrid or semantic, the
\* image source if and only if it is hybrid or image; with a single-source
\* search_type every returned record's match_types holds only that source
C18_SelectorDecidesSources ==
    /\ RetrievalDone =>
          \A source \in Sources :
              source \in source_calls
                  <=> request.search_type \in {"hybrid", source}
    /\ FlowFused /\ request.search_type \in SingleSource =>
          \A k \in 1..Len(Out) :
              \A i \in 1..Len(Out[k].match_types) :
                  Out[k].match_types[i] = request.search_type

\* an image-only search of user 1 was answered with a record, the image source
\* alone having been called
C18_Witness ==
    /\ pc = "done"
    /\ request.handler = "search_memories"
    /\ request.search_type = "image"
    /\ response.status = "200"
    /\ source_calls = {"image"}
    /\ Len(Out) >= 1
    /\ Out[1].match_types = <<"image">>

----------------------------------------------------------------------------
(* User isolation *)

\* C19: every record returned by search_memories, and every id in the
\* memory_ids of ask_from_memories, belongs to the authenticated user, for
\* every search_type, type filter and content of the stores, also when the
\* keyword lookup came back empty and the fallback lookup was tried
C19_UserIsolation ==
    FlowFused =>
        \A k \in 1..Len(Out) :
            /\ Out[k].user_id = request.user_id
            /\ memories[Out[k].id].user_id = request.user_id

\* user 2 asked "xy", which only a memory of user 1 holds: the keyword lookup
\* came back empty, the fallback was tried, and the answer names a memory of
\* user 2 found by another source
C19_Witness ==
    /\ pc = "done"
    /\ request.handler = "ask_from_memories"
    /\ request.user_id = 2
    /\ request.query = <<"x", "y">>
    /\ "keyword" \in source_calls
    /\ "keyword" \notin source_failed
    /\ retrieved.keyword = <<>>
    /\ search_memories(memories, request.query, request.limit) # <<>>
    /\ response.status = "200"
    /\ Len(Out) >= 1

----------------------------------------------------------------------------
(* Frame of the rank fusion *)

\* references of the dicts the caller handed over
InputRefs == 1..Len(heap.before.objects)

\* C20: after _hybrid_rank_results has returned, the three input lists hold
\* the same elements in the same order, every input record has exactly the
\* keys and values it had before the call, and every returned record is a
\* fresh wrapper object (one per returned record, none of them an input)
C20_InputsNotMutated ==
    Fused =>
        /\ heap.after.lists = heap.before.lists
        /\ \A ref \in InputRefs :
               heap.after.objects[ref] = heap.before.objects[ref]
        /\ \A k \in 1..Len(heap.returned) :
               /\ heap.returned[k] \notin InputRefs
               /\ \A j \in 1..Len(heap.returned) :
                      heap.returned[j] = heap.returned[k] => j = k
        /\ Out = RankWithTerms(keyword_results, semantic_results,
                               image_results, QueryTerms(request.query),
                               request.limit).results

\* one dict was handed over in the keyword and in the semantic list and a
\* second one for the same memory in the keyword list; the call returned one
\* wrapper holding three match types, and no input dict holds match_types
C20_Witness ==
    /\ Fused
    /\ heap.before.lists = [keyword |-> <<1, 3>>, semantic |-> <<3>>,
                            image |-> <<>>]
    /\ Len(heap.returned) = 1
    /\ Len(Out[1].match_types) = 3
    /\ \A ref \in InputRefs :
           "match_types" \notin DOMAIN heap.after.objects[ref]

----------------------------------------------------------------------------
(* The answer call of ask_from_memories *)

\* C21: in ask_from_memories a failure of the answer call is answered with
\* status 500 and no result, and no candidate source is called once the answer
\* call has been issued: the sources called are those called before it
C21_AnswerFailureIs500 ==
    /\ answer_call.outcome = "raised" =>
          /\ pc = "done"
          /\ request.handler = "ask_from_memories"
          /\ response.status = "500"
          /\ response.memories = <<>>
    /\ answer_call.outcome # "none" =>
          source_calls = answer_call.sources_before

\* a hybrid question went through the three sources, the fusion held a
\* record, and the answer call raised
C21_Witness ==
    /\ pc = "done"
    /\ request.handler = "ask_from_memories"
    /\ answer_call.outcome = "raised"
    /\ answer_call.sources_before = Sources
    /\ source_failed = {}
    /\ retrieved.keyword # <<>>
    /\ response.status = "500"

----------------------------------------------------------------------------
(* The breakdown of search_memories *)

SearchAnswered ==
    pc = "done" /\ request.handler = "search_memories" /\ response.status = "200"

\* C22 as stated: the breakdown of a search_memories response holds, for each
\* of the three sources, the number of candidates the source returned for the
\* query.  Fails when the type filter removes a candidate.
C22_BreakdownCountsRetrieved ==
    SearchAnswered =>
        response.breakdown = <<Len(retrieved.keyword), Len(retrieved.semantic),
                               Len(retrieved.image)>>

\* C22 amended: the breakdown holds, for each of the three sources, the number
\* of that source's candidates handed to the fusion, those that are left once
\* the type filter is applied; it is counted before the fusion, so it is not
\* cut to limit, and without a type filter it is the number of candidates the
\* source returned.
C22_BreakdownCountsFiltered ==
    SearchAnswered =>
        /\ response.breakdown =
             IF FilterGiven
             THEN <<Len(OfRequestedType(retrieved.keyword)),
                    Len(OfRequestedType(retrieved.semantic)),
                    Len(OfRequestedType(retrieved.image))>>
             ELSE <<Len(retrieved.keyword), Len(retrieved.semantic),
                    Len(retrieved.image)>>
        /\ response.breakdown =
             <<Len(keyword_results), Len(semantic_results), Len(image_results)>>

\* a hybrid search under a type filter: the keyword source returned two
\* candidates of which the filter kept one, and all three counts are 1 while
\* one record is returned
C22_Witness ==
    /\ SearchAnswered
    /\ FilterGiven
    /\ request.limit = 2
    /\ Len(retrieved.keyword) = 2
    /\ response.breakdown = <<1, 1, 1>>
    /\ Len(Out) = 1

----------------------------------------------------------------------------
(* Two search_memories requests served concurrently by one event loop.  A   *)
(* coroutine runs from one await that suspends to the next; the stores are  *)
(* not written.                                                             *)

Tasks == {1, 2}

PairQueries == {<<"X">>}
PairSearchTypes == {"hybrid", "keyword"}
PairFilters ==
    {f \in FilterParams :
        f.memory_types = NoneList /\ f.memory_type \in {NoneStr, "text"}}

\* the candidate sources whose query raises while a request is served
PairFaults == {{}, {"semantic"}}

\* what the text collection holds for a query, nearest first: memory ids with
\* their similarity
SemanticIndex(query) ==
    <<[memory_id |-> 3, similarity |-> 80],
      [memory_id |-> 1, similarity |-> 80],
      [memory_id |-> 2, similarity |-> 48]>>

\* what the image collection holds for a query, nearest first
ImageIndex(query) ==
    <<[memory_id |-> 2, distance |-> 30],
      [memory_id |-> 3, distance |-> 30],
      [memory_id |-> 1, distance |-> 70]>>

\* search_similar_memories: the matches at or above the threshold, best first,
\* cut to limit
search_similar_memories(query, limit, threshold) ==
    LET AtLeast(m) == m.similarity >= threshold
    IN  Take(SelectSeq(SemanticIndex(query), AtLeast), Min2(limit, MaxMatches))

\* image_collection.query(n_results=n)
QueryImages(query, n) == Take(ImageIndex(query), Min2(n, MaxMatches))

\* keyword_results = [], semantic_results = [], image_results = []
EmptyFrame ==
    [keyword_results |-> <<>>, semantic_results |-> <<>>, image_results |-> <<>>]

IdleTask ==
    [request |-> NoRequest, faults |-> {}, pc |-> "idle", pending |-> <<>>,
     response |-> NoResponse, overlapped |-> FALSE]

\* one set of lists shared by every call, as module-level lists would be
SharedFrame(t) == 1

\* the three lists are locals of the handler: every call has its own
FrameOf(t) == t

InFlight(t) == tasks[t].pc \notin {"idle", "done"}

\* task t after a step that leaves it at position next with the matches left
\* to process; overlapped records that another request was under way
Stepped(t, next, left) ==
    [tasks EXCEPT ![t].pc = next,
                  ![t].pending = left,
                  ![t].overlapped = @ \/ \E o \in Tasks \ {t} : InFlight(o)]

\* everything but tasks and frames
PairUnchanged ==
    UNCHANGED <<memories, request, pc, keyword_results, semantic_results,
                image_results, source_calls, source_failed, retrieved,
                response, hash_seed, scorer_call, heap, answer_call,
                _initialized, init_runs, store_call>>

InitPair ==
    /\ tasks = [t \in Tasks |-> IdleTask]
    /\ frames = [t \in Tasks |-> EmptyFrame]
    /\ _initialized = TRUE
    /\ init_runs = OneRunEach
    /\ store_call = NoStoreCall
    /\ memories = SampleMemories
    /\ hash_seed = 0
    /\ scorer_call = NoScorerCall
    /\ heap = NoHeap
    /\ answer_call = NoAnswerCall
    /\ request = NoRequest
    /\ pc = "idle"
    /\ keyword_results = <<>>
    /\ semantic_results = <<>>
    /\ image_results = <<>>
    /\ source_calls = {}
    /\ source_failed = {}
    /\ retrieved = NothingRetrieved
    /\ response = NoResponse

\* the handler is entered and initializes its result containers
PairReceive(t) ==
    /\ tasks[t].pc = "idle"
    /\ \E u \in Users, q \in PairQueries, l \in FlowLimits,
          st \in PairSearchTypes, f \in PairFilters, fl \in PairFaults :
         tasks' = [Stepped(t, "keyword", <<>>) EXCEPT
                      ![t].request =
                          [handler |-> "search_memories", user_id |-> u,
                           query |-> q, limit |-> l, search_type |-> st,
                           memory_type |-> f.memory_type,
                           memory_types |-> f.memory_types],
                      ![t].faults = fl]
    /\ frames' = [frames EXCEPT ![FrameOf(t)] = EmptyFrame]
    /\ PairUnchanged

\* await postgres_db.advanced_search_memories(...), or its except branch
PairKeyword(t) ==
    /\ tasks[t].pc = "keyword"
    /\ LET req == tasks[t].request
       IN  IF Selects(req.search_type, "keyword")
           THEN frames' =
                  [frames EXCEPT ![FrameOf(t)].keyword_results =
                      IF "keyword" \in tasks[t].faults THEN <<>>
                      ELSE advanced_search_memories(memories, req.query,
                                                    req.limit, req.user_id)]
           ELSE UNCHANGED frames
    /\ tasks' = Stepped(t, "semantic", <<>>)
    /\ PairUnchanged

\* await embedding_processor.search_similar_memories(...), or the except
\* branch of the semantic block
PairSemantic(t) ==
    /\ tasks[t].pc = "semantic"
    /\ LET req == tasks[t].request
           matches == search_similar_memories(req.query, req.limit * 2, 45)
       IN  IF ~Selects(req.search_type, "semantic")
           THEN tasks' = Stepped(t, "image", <<>>) /\ UNCHANGED frames
           ELSE IF "semantic" \in tasks[t].faults
           THEN /\ frames' = [frames EXCEPT ![FrameOf(t)].semantic_results = <<>>]
                /\ tasks' = Stepped(t, "image", <<>>)
           ELSE /\ tasks' = Stepped(t, IF matches = <<>> THEN "image"
                                       ELSE "semantic_rows", matches)
                /\ UNCHANGED frames
    /\ PairUnchanged

\* one turn of the loop over semantic_matches: await get_memory_by_id, then
\* the append
PairSemanticRow(t) ==
    /\ tasks[t].pc = "semantic_rows"
    /\ LET req == tasks[t].request
           match == Head(tasks[t].pending)
           left == Tail(tasks[t].pending)
       IN  /\ IF /\ HasMemory(memories, match.memory_id)
                 /\ memories[match.memory_id].user_id = req.user_id
                 /\ match.similarity >= 50
              THEN frames' =
                     [frames EXCEPT ![FrameOf(t)].semantic_results =
                         Append(@, WithSimilarity(RowOf(memories, match.memory_id),
                                                  match.similarity))]
              ELSE UNCHANGED frames
           /\ tasks' = Stepped(t, IF left = <<>> THEN "image"
                                  ELSE "semantic_rows", left)
    /\ PairUnchanged

\* await loop.run_in_executor(... _encode_text_sync ...), then the query of
\* the image collection, or the except branch of the image block
PairImage(t) ==
    /\ tasks[t].pc = "image"
    /\ LET req == tasks[t].request
           matches == QueryImages(req.query, req.limit * 2)
       IN  IF ~Selects(req.search_type, "image")
           THEN tasks' = Stepped(t, "finish", <<>>) /\ UNCHANGED frames
           ELSE IF "image" \in tasks[t].faults
           THEN /\ frames' = [frames EXCEPT ![FrameOf(t)].image_results = <<>>]
                /\ tasks' = Stepped(t, "finish", <<>>)
           ELSE /\ tasks' = Stepped(t, IF matches = <<>> THEN "finish"
                                       ELSE "image_rows", matches)
                /\ UNCHANGED frames
    /\ PairUnchanged

\* one turn of the loop over the image matches
PairImageRow(t) ==
    /\ tasks[t].pc = "image_rows"
    /\ LET req == tasks[t].request
           match == Head(tasks[t].pending)
           left == Tail(tasks[t].pending)
       IN  /\ IF /\ 100 - match.distance >= 35
                 /\ HasMemory(memories, match.memory_id)
                 /\ memories[match.memory_id].user_id = req.user_id
              THEN frames' =
                     [frames EXCEPT ![FrameOf(t)].image_results =
                         Append(@, ImageRow(memories, match))]
              ELSE UNCHANGED frames
           /\ tasks' = Stepped(t, IF left = <<>> THEN "finish"
                                  ELSE "image_rows", left)
    /\ PairUnchanged

\* what search_memories answers from the three lists it has retrieved
SearchResponse(kw_results, sem_results, img_results, req) ==
    LET f == ParseTypeFilter(req.memory_type, req.memory_types)
        r == FilterAndFuse(kw_results, sem_results, img_results, f, req.query,
                           req.limit)
    IN  IF SearchStatus(f.error, r.raised, {}) # "200"
        THEN Respond(SearchStatus(f.error, r.raised, {}), <<>>, <<0, 0, 0>>)
        ELSE Respond("200", r.results,
                     Breakdown(FilterByType(kw_results, f),
                               FilterByType(sem_results, f),
                               FilterByType(img_results, f)))

\* type filter, fusion and response: no await suspends in between
PairFinish(t) ==
    /\ tasks[t].pc = "finish"
    /\ LET fr == frames[FrameOf(t)]
           req == tasks[t].request
           f == ParseTypeFilter(req.memory_type, req.memory_types)
       IN  /\ tasks' = [Stepped(t, "done", <<>>) EXCEPT ![t].response =
                          SearchResponse(fr.keyword_results, fr.semantic_results,
                                         fr.image_results, req)]
           /\ frames' =
                IF f.error # "" THEN frames
                ELSE [frames EXCEPT ![FrameOf(t)] =
                        [keyword_results |-> FilterByType(fr.keyword_results, f),
                         semantic_results |-> FilterByType(fr.semantic_results, f),
                         image_results |-> FilterByType(fr.image_results, f)]]
    /\ PairUnchanged

NextPair ==
    \E t \in Tasks :
        \/ PairReceive(t)
        \/ PairKeyword(t)
        \/ PairSemantic(t)
        \/ PairSemanticRow(t)
        \/ PairImage(t)
        \/ PairImageRow(t)
        \/ PairFinish(t)

SpecPair == InitPair /\ [][NextPair]_vars

\* what the request answers when it is served alone: each source is queried
\* in turn and its loop run to the end
SearchAlone(req, faults) ==
    SearchResponse(
        IF Selects(req.search_type, "keyword") /\ "keyword" \notin faults
        THEN advanced_search_memories(memories, req.query, req.limit, req.user_id)
        ELSE <<>>,
        IF Selects(req.search_type, "semantic") /\ "semantic" \notin faults
        THEN SearchSemanticRows(memories,
                                search_similar_memories(req.query, req.limit * 2, 45),
                                {}, req.user_id)
        ELSE <<>>,
        IF Selects(req.search_type, "image") /\ "image" \notin faults
        THEN SearchImageRows(memories, QueryImages(req.query, req.limit * 2),
                             {}, req.user_id)
        ELSE <<>>,
        req)

\* C23: when two search requests are served concurrently, with any interleaving
\* at their suspension points and the stores unchanged, each response
\* (status, records, scores, order, breakdown) is the one the same request
\* gets when it is served alone
C23_ConcurrentRequestsIndependent ==
    \A t \in DOMAIN tasks :
        tasks[t].pc = "done" =>
            tasks[t].response = SearchAlone(tasks[t].request, tasks[t].faults)

\* both requests are answered, each took steps while the other was under way,
\* and they were answered differently
C23_Witness ==
    /\ DOMAIN tasks = Tasks
    /\ \A t \in Tasks :
         /\ tasks[t].pc = "done"
         /\ tasks[t].overlapped
         /\ tasks[t].response.status = "200"
         /\ tasks[t].response.memories # <<>>
    /\ tasks[1].request.search_type = "hybrid"
    /\ tasks[2].request.search_type = "hybrid"
    /\ tasks[1].response # tasks[2].response

----------------------------------------------------------------------------
(* Truncation and the type filter *)

\* the memories of the user that match the query by keyword, all of them
KeywordMatching(user_id, query) ==
    advanced_search_memories(memories, query, NumIds, user_id)

\* C24: in search_memories with a type filter, search_type = keyword, limit L
\* and selected types T, the response holds min(L, n) records, n being the
\* number of the user's keyword-matching memories whose type is in T: no
\* truncation, the limit inside the keyword source included, drops a record of
\* a selected type in favour of one of an excluded type
C24_LimitCountsSelectedTypes ==
    (/\ SearchAnswered
     /\ request.search_type = "keyword"
     /\ FilterGiven
     /\ source_failed = {})
      => Len(Out) =
           Min2(request.limit,
                Len(OfRequestedType(KeywordMatching(request.user_id,
                                                    request.query))))

----------------------------------------------------------------------------
(* Exact and substring matches *)

\* the call scored a single word that properly contains the one term of the
\* call, starting at index 0
WordExtendsTerm ==
    /\ Len(scorer_call.query_terms) = 1
    /\ Len(Split(scorer_call.text)) = 1
    /\ Split(scorer_call.text)[1] = scorer_call.text
    /\ Len(scorer_call.text) > Len(scorer_call.query_terms[1])
    /\ MatchAt(Lower(scorer_call.text), scorer_call.query_terms[1], 1)

\* C25: for a term t and a single word w that properly contains t starting at
\* index 0, _calculate_keyword_score(t, {t}) >= _calculate_keyword_score(w, {t}):
\* the exact match is rewarded at least as much as the substring match
C25_ExactBeatsSubstring ==
    (Scored /\ WordExtendsTerm) =>
        FloatGeq(_calculate_keyword_score(scorer_call.query_terms[1],
                                          scorer_call.query_terms),
                 scorer_call.returned)

----------------------------------------------------------------------------
(* Ranks come from each source's sorted order *)

\* id occurs once over the three lists and is returned: its hybrid_score is
\* the contribution of that one occurrence
Sole(id) ==
    /\ Occurrences("keyword", id) + Occurrences("semantic", id)
         + Occurrences("image", id) = 1
    /\ id \in OutIds

\* the rank the one occurrence of id was given: hybrid_score = 1/(60 + rank)
SoleRank(id) ==
    LET m == Out[CHOOSE k \in 1..Len(Out) : Out[k].id = id]
        Fits(r) == m.hybrid_score * (rrf_k + r) = RrfScale
    IN  IF \E r \in 1..MaxRank : Fits(r)
        THEN CHOOSE r \in 1..MaxRank : Fits(r)
        ELSE 0

\* in a list with these sort keys, of two entries found once the one with the
\* larger key has the lower rank number, and of two with equal keys the one
\* that comes first in the list
RankedByKey(list, keys) ==
    \A i, j \in 1..Len(list) :
        (/\ Sole(list[i].id) /\ Sole(list[j].id)
         /\ \/ FloatGt(keys[i], keys[j])
            \/ keys[i] = keys[j] /\ i < j)
          => /\ SoleRank(list[i].id) >= 1
             /\ SoleRank(list[i].id) < SoleRank(list[j].id)

\* C26: inside _hybrid_rank_results, of two keyword candidates with different
\* keyword-scorer outputs the higher-scored one gets the lower rank number,
\* whatever order the datastore returned them in, and equal scores keep the
\* input order; semantic and image candidates are ranked by descending
\* similarity_score
C26_RanksFromSortedOrder ==
    Fused =>
        /\ RankedByKey(keyword_results, KeywordKeys)
        /\ RankedByKey(semantic_results, SemanticKeys)
        /\ RankedByKey(image_results, ImageKeys)

\* the datastore returned a keyword candidate ahead of a higher-scored one,
\* and the higher-scored one was given rank 1, the other rank 2; the one
\* semantic candidate was given rank 1 of its own list
C26_Witness ==
    /\ pc = "returned"
    /\ response.status = "returned"
    /\ Len(keyword_results) = 2
    /\ FloatGt(KeywordKeys[2], KeywordKeys[1])
    /\ Sole(keyword_results[1].id) /\ Sole(keyword_results[2].id)
    /\ SoleRank(keyword_results[2].id) = 1
    /\ SoleRank(keyword_results[1].id) = 2
    /\ Len(semantic_results) = 1
    /\ Sole(semantic_results[1].id)
    /\ SoleRank(semantic_results[1].id) = 1


\* ---------------------------------------------------------------------
\* Lazy initialization of the processors (memory_routes.py 36-83): the
\* first requests pass through a get_* dependency while the module flag is
\* still False; each await of initialize_all_processors suspends the
\* coroutine and lets another request run.
\* ---------------------------------------------------------------------

\* the requests that arrive before the processors are initialized
InitTasks == 1..3

\* a request that has not yet reached its get_* dependency
Arriving == [at |-> "arriving", step |-> 0]

\* a request whose dependency has returned the processor
Ready == [at |-> "ready", step |-> 0]

\* the request is suspended at the await of the given step
AwaitingStep(k) == [at |-> "awaiting", step |-> k]

\* the request waits for _init_lock of the embedding processor
AwaitingLock == [at |-> "lock", step |-> Len(InitSteps)]

\* embedding_processor.initialize returns early once the model and the
\* collection are set, which the first run under the lock does
embedding_initialized == init_runs[Len(InitSteps)] > 0

\* _init_lock is held by a request that is inside initialize
init_lock_held ==
    \E t \in InitTasks : tasks[t] = AwaitingStep(Len(InitSteps))

\* `if not _initialized` reads the module flag, set after the last step
Guard(flag) == flag

InitLazy ==
    /\ memories = SampleMemories
    /\ request = NoRequest
    /\ pc = "idle"
    /\ keyword_results = <<>>
    /\ semantic_results = <<>>
    /\ image_results = <<>>
    /\ source_calls = {}
    /\ source_failed = {}
    /\ retrieved = NothingRetrieved
    /\ response = NoResponse
    /\ hash_seed = 0
    /\ scorer_call = NoScorerCall
    /\ heap = NoHeap
    /\ answer_call = NoAnswerCall
    /\ frames = NoFrames
    /\ store_call = NoStoreCall
    /\ tasks = [t \in InitTasks |-> Arriving]
    /\ _initialized = FALSE
    /\ init_runs = [k \in 1..Len(InitSteps) |-> 0]

LazyUnchanged ==
    UNCHANGED <<memories, request, pc, keyword_results, semantic_results,
                image_results, source_calls, source_failed, retrieved,
                response, hash_seed, scorer_call, heap, answer_call, frames,
                store_call>>

\* get_*: the flag is set, the dependency returns the processor at once
DependencyReturns(t) ==
    /\ tasks[t] = Arriving
    /\ Guard(_initialized)
    /\ tasks' = [tasks EXCEPT ![t] = Ready]
    /\ UNCHANGED <<_initialized, init_runs>>
    /\ LazyUnchanged

\* get_* and initialize_all_processors: both read the flag as False with no
\* await in between, and postgres_db.connect() runs up to its first await
DependencyInitializes(t) ==
    /\ tasks[t] = Arriving
    /\ ~Guard(_initialized)
    /\ init_runs' = [init_runs EXCEPT ![1] = @ + 1]
    /\ tasks' = [tasks EXCEPT ![t] = AwaitingStep(1)]
    /\ UNCHANGED _initialized
    /\ LazyUnchanged

\* the awaited step completes and the next one runs up to its await
NextStep(t) ==
    /\ tasks[t].at = "awaiting"
    /\ tasks[t].step < Len(InitSteps) - 1
    /\ init_runs' = [init_runs EXCEPT ![tasks[t].step + 1] = @ + 1]
    /\ tasks' = [tasks EXCEPT ![t] = AwaitingStep(tasks[t].step + 1)]
    /\ UNCHANGED _initialized
    /\ LazyUnchanged

\* clip_processor.load_models completes; embedding_processor.initialize
\* is called and waits for _init_lock
CallEmbeddingInitialize(t) ==
    /\ tasks[t] = AwaitingStep(Len(InitSteps) - 1)
    /\ tasks' = [tasks EXCEPT ![t] = AwaitingLock]
    /\ UNCHANGED <<_initialized, init_runs>>
    /\ LazyUnchanged

\* initialize acquires the lock and loads the model and the collections
EmbeddingInitialize(t) ==
    /\ tasks[t] = AwaitingLock
    /\ ~init_lock_held
    /\ ~embedding_initialized
    /\ init_runs' = [init_runs EXCEPT ![Len(InitSteps)] = @ + 1]
    /\ tasks' = [tasks EXCEPT ![t] = AwaitingStep(Len(InitSteps))]
    /\ UNCHANGED _initialized
    /\ LazyUnchanged

\* initialize acquires the lock and returns early; the flag is set and the
\* dependency returns
EmbeddingAlreadyInitialized(t) ==
    /\ tasks[t] = AwaitingLock
    /\ ~init_lock_held
    /\ embedding_initialized
    /\ _initialized' = TRUE
    /\ tasks' = [tasks EXCEPT ![t] = Ready]
    /\ UNCHANGED init_runs
    /\ LazyUnchanged

\* initialize completes and releases the lock; the flag is set and the
\* dependency returns
SetInitialized(t) ==
    /\ tasks[t] = AwaitingStep(Len(InitSteps))
    /\ _initialized' = TRUE
    /\ tasks' = [tasks EXCEPT ![t] = Ready]
    /\ UNCHANGED init_runs
    /\ LazyUnchanged

NextLazy ==
    \E t \in InitTasks :
        \/ DependencyReturns(t)
        \/ DependencyInitializes(t)
        \/ NextStep(t)
        \/ CallEmbeddingInitialize(t)
        \/ EmbeddingInitialize(t)
        \/ EmbeddingAlreadyInitialized(t)
        \/ SetInitialized(t)

SpecLazy == InitLazy /\ [][NextLazy]_vars

\* C27: across any interleaving of concurrent requests that pass through
\* the get_* dependencies, every step of initialize_all_processors
\* (postgres connect, neo4j connect, the model loads, embedding
\* initialize) is executed at most once.
C27_InitializedOnce ==
    \A k \in 1..Len(InitSteps) : init_runs[k] <= 1


\* ---------------------------------------------------------------------
\* Direct calls of _hybrid_rank_results on candidates that carry, or lack,
\* the keys image_path and filename.
\* ---------------------------------------------------------------------

ImageIds == {1, 2}

\* image_path and filename of a candidate: both keys missing, filename
\* missing, or both present
ImageFields == {<<Missing, Missing>>, <<11, Missing>>, <<11, 21>>, <<12, 22>>}

\* image candidates as the caller builds them
ImgFieldCands ==
    {WithImageFields(WithSimilarity(Row(i, 1, SampleType(i)), 70), f[1], f[2]) :
        i \in ImageIds, f \in ImageFields}

\* keyword candidates, with or without the two keys
KwFieldCands ==
    {WithImageFields(Row(i, 1, SampleType(i)), f[1], f[2]) :
        i \in ImageIds, f \in {<<Missing, Missing>>, <<15, 25>>}}

\* semantic candidates, with or without the two keys
SemFieldCands ==
    {WithImageFields(WithSimilarity(Row(i, 1, SampleType(i)), 60), f[1], f[2]) :
        i \in ImageIds, f \in {<<Missing, Missing>>, <<16, 26>>}}

InitImage ==
    /\ \E a \in 0..1 : keyword_results \in [1..a -> KwFieldCands]
    /\ \E b \in 0..1 : semantic_results \in [1..b -> SemFieldCands]
    /\ \E c \in 0..2 : image_results \in [1..c -> ImgFieldCands]
    /\ \E l \in {1, 3} : request = DirectRequest(<<"X">>, l)
    /\ hash_seed = 0
    /\ memories = SampleMemories
    /\ scorer_call = NoScorerCall
    /\ heap = NoHeap
    /\ answer_call = NoAnswerCall
    /\ tasks = NoTasks
    /\ frames = NoFrames
    /\ _initialized = TRUE
    /\ init_runs = OneRunEach
    /\ store_call = NoStoreCall
    /\ pc = "call"
    /\ source_calls = {}
    /\ source_failed = {}
    /\ retrieved = NothingRetrieved
    /\ response = NoResponse

NextImage == CallHybridRank

SpecImage == InitImage /\ [][NextImage]_vars

\* the candidate of the list has the id and the two fields of the record,
\* a missing key read as default
CarriesFields(list, r, default) ==
    \E i \in 1..Len(list) :
        /\ list[i].id = r.id
        /\ Get(list[i].image_path, default) = r.image_path
        /\ Get(list[i].filename, default) = r.filename

\* C28: every fused record that occurs in the image list carries the keys
\* image_path and filename with the values of an image candidate of its id
\* (None where the candidate lacks the key), also when its accumulator was
\* created from the keyword or the semantic list; a record that does not
\* occur in the image list has the two keys exactly as its keyword or
\* semantic candidate has them.
C28_ImageFieldsFromImageCandidate ==
    Fused =>
        \A k \in 1..Len(Out) :
            IF HoldsId(image_results, Out[k].id)
            THEN /\ Out[k].image_path # Missing
                 /\ Out[k].filename # Missing
                 /\ CarriesFields(image_results, Out[k], NoneValue)
            ELSE \/ CarriesFields(keyword_results, Out[k], Missing)
                 \/ CarriesFields(semantic_results, Out[k], Missing)

\* a record created from a keyword candidate that has both keys is also the
\* sole image candidate of its id, which has another image_path and no
\* filename; a second record occurs in the semantic list only
C28_Witness ==
    /\ Fused
    /\ Len(Out) = 2
    /\ Len(image_results) = 1
    /\ \E k \in 1..2 :
         /\ Out[k].id = image_results[1].id
         /\ Out[k].match_types = <<"keyword", "image">>
         /\ keyword_results[1].image_path = 15
         /\ image_results[1].filename = Missing
         /\ Out[k].image_path = 11
         /\ Out[k].filename = NoneValue
    /\ \E k \in 1..2 :
         /\ Out[k].match_types = <<"semantic">>
         /\ Out[k].image_path = Missing


\* ---------------------------------------------------------------------
\* The memories table under deletion: soft_delete_memory and restore_memory
\* of the connector, the routes get_memory and delete_memory, and a search
\* over the table they leave.  The vector collections are not part of the
\* state: a search may be answered with any ids, as in the flows above, and
\* every match goes through get_memory_by_id.
\* ---------------------------------------------------------------------

\* a request without a valid bearer token
Anonymous == 0

Callers == Users \cup {Anonymous}

\* search types of the searches that follow the deletions
StoreSearchTypes == {"hybrid", "keyword", "semantic", "image"}

StoreCall(op, caller, memory_id, owner, status) ==
    [op |-> op, caller |-> caller, memory_id |-> memory_id, owner |-> owner,
     status |-> status]

\* user_id of the row, 0 where the table has no row of this id
OwnerOf(mem, id) == IF id \in DOMAIN mem THEN mem[id].user_id ELSE 0

\* the table after DELETE FROM memories WHERE id = $1
WithoutRow(mem, id) == [i \in DOMAIN mem \ {id} |-> mem[i]]

\* UPDATE memories SET deleted_at = CURRENT_TIMESTAMP
\* WHERE id = $1 AND user_id = $2 AND deleted_at IS NULL
soft_delete_memory(mem, memory_id, user_id) ==
    IF /\ memory_id \in DOMAIN mem
       /\ mem[memory_id].user_id = user_id
       /\ ~mem[memory_id].deleted
    THEN [mem EXCEPT ![memory_id].deleted = TRUE]
    ELSE mem

\* UPDATE memories SET deleted_at = NULL
\* WHERE id = $1 AND user_id = $2 AND deleted_at IS NOT NULL
restore_memory(mem, memory_id, user_id) ==
    IF /\ memory_id \in DOMAIN mem
       /\ mem[memory_id].user_id = user_id
       /\ mem[memory_id].deleted
    THEN [mem EXCEPT ![memory_id].deleted = FALSE]
    ELSE mem

\* status of get_memory: get_current_user refuses a request without a valid
\* token; 404 for no row, 403 for the row of another user
get_memory(mem, caller, memory_id) ==
    IF caller = Anonymous THEN "401"
    ELSE IF ~HasMemory(mem, memory_id) THEN "404"
    ELSE IF mem[memory_id].user_id # caller THEN "403"
    ELSE "200"

\* status of delete_memory: no current_user dependency and no comparison with
\* the owner; 404 for no row
delete_memory(mem, caller, memory_id) ==
    IF ~HasMemory(mem, memory_id) THEN "404" ELSE "200"

InitStore ==
    /\ memories = SampleMemories
    /\ store_call = NoStoreCall
    /\ request = NoRequest
    /\ pc = "idle"
    /\ keyword_results = <<>>
    /\ semantic_results = <<>>
    /\ image_results = <<>>
    /\ source_calls = {}
    /\ source_failed = {}
    /\ retrieved = NothingRetrieved
    /\ response = NoResponse
    /\ hash_seed = 0
    /\ scorer_call = NoScorerCall
    /\ heap = NoHeap
    /\ answer_call = NoAnswerCall
    /\ tasks = NoTasks
    /\ frames = NoFrames
    /\ _initialized = TRUE
    /\ init_runs = OneRunEach

StoreUnchanged ==
    UNCHANGED <<request, pc, keyword_results, semantic_results, image_results,
                source_calls, source_failed, retrieved, response, hash_seed,
                scorer_call, heap, answer_call, tasks, frames, _initialized,
                init_runs>>

SoftDeleteMemory ==
    /\ pc = "idle"
    /\ \E id \in MemIds, u \in Users :
         /\ memories' = soft_delete_memory(memories, id, u)
         /\ memories' # memories
    /\ UNCHANGED store_call
    /\ StoreUnchanged

RestoreMemory ==
    /\ pc = "idle"
    /\ \E id \in MemIds, u \in Users :
         /\ memories' = restore_memory(memories, id, u)
         /\ memories' # memories
    /\ UNCHANGED store_call
    /\ StoreUnchanged

GetMemory ==
    /\ pc = "idle"
    /\ \E id \in MemIds, c \in Callers :
         store_call' = StoreCall("get_memory", c, id, OwnerOf(memories, id),
                                 get_memory(memories, c, id))
    /\ UNCHANGED memories
    /\ StoreUnchanged

DeleteMemory ==
    /\ pc = "idle"
    /\ \E id \in MemIds, c \in Callers :
         /\ store_call' = StoreCall("delete_memory", c, id,
                                    OwnerOf(memories, id),
                                    delete_memory(memories, c, id))
         /\ memories' = IF delete_memory(memories, c, id) = "200"
                        THEN WithoutRow(memories, id) ELSE memories
    /\ StoreUnchanged

\* a search request arrives
StoreReceive ==
    /\ pc = "idle"
    /\ \E u \in Users, st \in StoreSearchTypes :
         request' = [handler |-> "search_memories", user_id |-> u,
                     query |-> <<"X">>, limit |-> 2, search_type |-> st,
                     memory_type |-> NoneStr, memory_types |-> NoneList]
    /\ pc' = "search_keyword"
    /\ UNCHANGED <<_initialized, init_runs, store_call, tasks, frames,
                   answer_call, heap, scorer_call, hash_seed, memories,
                   keyword_results, semantic_results, image_results,
                   source_calls, source_failed, retrieved, response>>

NextStore ==
    \/ SoftDeleteMemory
    \/ RestoreMemory
    \/ GetMemory
    \/ DeleteMemory
    \/ StoreReceive
    \/ SearchKeyword
    \/ SearchSemantic
    \/ SearchImage
    \/ SearchFinish

SpecStore == InitStore /\ [][NextStore]_vars

\* the row exists and its deleted_at is set
SoftDeleted(id) == id \in DOMAIN memories /\ memories[id].deleted

\* C29: a memory that has been soft-deleted and not restored is never
\* returned by search_memories, through the keyword, the semantic or the
\* image path.
C29_SoftDeletedNeverReturned ==
    SearchAnswered => \A k \in 1..Len(Out) : ~SoftDeleted(Out[k].id)

\* C30: a memory is removed by delete_memory only when the request comes from
\* the authenticated user who owns it, and get_memory returns a memory only
\* to its owner.
C30_OnlyOwnerActs ==
    store_call.status = "200" =>
        /\ store_call.caller # Anonymous
        /\ store_call.caller = store_call.owner

====
